---- MODULE Spec2Model ----
(***************************************************************************)
(* Churn-prediction preprocessing core: categorical encoder, feature       *)
(* engineering and the validate -> encode -> engineer -> assemble pipeline *)
(* of ChurnPreprocessor.  A single caller issues one operation at a time;  *)
(* the state is the long-lived lookup tables plus the frame of the current *)
(* (or most recent) call.                                                  *)
(*                                                                         *)
(* Numbers.  Python floats are modelled as exact rationals [num, den] in   *)
(* lowest terms (den > 0); currency amounts are drawn on the cent grid.    *)
(* Record constructors list their fields in alphabetical order.            *)
(* Optional values are sequences of length <= 1: None == <<>>.             *)
(***************************************************************************)
EXTENDS Integers, Sequences, FiniteSets, TLC

\* ------------------------------------------------------------------ bounds
\* Largest tenure of the contiguous range of tenures that is explored.
MaxTenure == 26
\* Largest number of records given to one batch call.
MaxBatch == 3
\* Number of threads that call preprocess concurrently.
MaxThreads == 2
\* Largest number of predictions saved to a history between two clears.
MaxSaves == 52

\* ------------------------------------------------------- rational numbers
RECURSIVE GCD(_, _)
GCD(a, b) == IF b = 0 THEN a ELSE GCD(b, a % b)

Abs(x) == IF x < 0 THEN -x ELSE x

\* The rational n/d (d # 0) in lowest terms with a positive denominator.
Rat(n, d) ==
    LET g == GCD(Abs(n), Abs(d))
        s == IF d < 0 THEN -1 ELSE 1
    IN  [den |-> (s * d) \div g, num |-> (s * n) \div g]

FromInt(i) == Rat(i, 1)
RatAdd(a, b) == Rat(a.num * b.den + b.num * a.den, a.den * b.den)
RatSub(a, b) == Rat(a.num * b.den - b.num * a.den, a.den * b.den)
RatAbs(a) == [den |-> a.den, num |-> Abs(a.num)]
RatMul(a, b) == Rat(a.num * b.num, a.den * b.den)
\* a / b for b # 0
RatDiv(a, b) == Rat(a.num * b.den, a.den * b.num)
RatLT(a, b) == a.num * b.den < b.num * a.den
RatLE(a, b) == a.num * b.den <= b.num * a.den
RatGT(a, b) == RatLT(b, a)
RatGE(a, b) == RatLE(b, a)

\* A currency amount given in cents, as the float the caller passes.
Cents(c) == Rat(c, 100)

None == <<>>
Some(v) == <<v>>

\* --------------------------------------------------- config/settings.py
CONTRACT_VALUES == <<"Month-to-month", "One year", "Two year">>
PAYMENT_METHOD_VALUES_swapped ==
    <<"Electronic check", "Bank transfer (automatic)",
      "Credit card (automatic)", "Mailed check">>
PAYMENT_METHOD_VALUES ==
    <<"Bank transfer (automatic)", "Credit card (automatic)",
      "Electronic check", "Mailed check">>
INTERNET_SERVICE_VALUES == <<"DSL", "Fiber optic", "No">>
PAPERLESS_BILLING_VALUES == <<"No", "Yes">>

TENURE_SEGMENT_MAPPING ==
    [s \in {"Nouveaux_0-6m", "Junior_6-12m", "Moyen_12-24m", "Senior_24m+"} |->
        CASE s = "Nouveaux_0-6m" -> 0
          [] s = "Junior_6-12m"  -> 1
          [] s = "Moyen_12-24m"  -> 2
          [] s = "Senior_24m+"   -> 3]

MODEL_FEATURES_reordered ==
    <<"Ratio_MonthlyCharges_tenure", "Contract", "MonthlyCharges", "tenure",
      "tenure_segment_encoded", "TotalCharges", "is_new_customer",
      "PaymentMethod", "InternetService", "PaperlessBilling",
      "Ratio_TotalCharges_MonthlyCharges*tenure">>
MODEL_FEATURES ==
    <<"Ratio_MonthlyCharges_tenure", "Contract", "tenure", "MonthlyCharges",
      "tenure_segment_encoded", "TotalCharges", "is_new_customer",
      "PaymentMethod", "InternetService", "PaperlessBilling",
      "Ratio_TotalCharges_MonthlyCharges*tenure">>

TENURE_BINS == <<-1, 6, 12, 24, 100>>
TENURE_LABELS == <<"Nouveaux_0-6m", "Junior_6-12m", "Moyen_12-24m", "Senior_24m+">>

MIN_TENURE == 0
MIN_MONTHLY_CHARGES == Rat(1, 100)
MIN_TOTAL_CHARGES == FromInt(0)

\* The keys of ENCODER_FILES: the features an encoder is loaded for.
ENCODER_FILES == {"Contract", "PaymentMethod", "InternetService", "PaperlessBilling"}

\* --------------------------------------------------------------- helpers
Range(s) == {s[i] : i \in 1..Len(s)}

\* 0-based position of v in the sequence s (v occurs in s).
IndexOf(s, v) == (CHOOSE i \in 1..Len(s) : s[i] = v) - 1

\* ------------------------------------------ the persisted label encoders
\* Code point of the first character of each categorical value; within one
\* field the first characters differ, so they decide the string order.
FirstChar(v) ==
    CASE v = "Bank transfer (automatic)" -> 66
      [] v = "Credit card (automatic)"   -> 67
      [] v = "DSL"                       -> 68
      [] v = "Electronic check"          -> 69
      [] v = "Fiber optic"               -> 70
      [] v = "Mailed check"              -> 77
      [] v = "Month-to-month"            -> 77
      [] v = "No"                        -> 78
      [] v = "One year"                  -> 79
      [] v = "Two year"                  -> 84
      [] v = "Yes"                       -> 89

\* LabelEncoder.fit: classes_ is the sorted sequence of the distinct labels.
RECURSIVE SortedClasses(_)
SortedClasses(S) ==
    IF S = {} THEN <<>>
    ELSE LET m == CHOOSE x \in S : \A y \in S : FirstChar(x) <= FirstChar(y)
         IN  <<m>> \o SortedClasses(S \ {m})

\* The labels each persisted encoder was fitted on.
FittedLabels(feature_name) ==
    CASE feature_name = "Contract"         -> {"Month-to-month", "One year", "Two year"}
      [] feature_name = "PaymentMethod"    -> {"Bank transfer (automatic)", "Credit card (automatic)",
                                               "Electronic check", "Mailed check"}
      [] feature_name = "InternetService"  -> {"DSL", "Fiber optic", "No"}
      [] feature_name = "PaperlessBilling" -> {"No", "Yes"}


\* The encoders as unpickled by _load_encoders: feature name -> classes_.
LoadedEncoders == [f \in ENCODER_FILES |-> SortedClasses(FittedLabels(f))]

\* Iteration order of self.encoders.keys() (insertion order of ENCODER_FILES).
EncoderKeyOrder == <<"Contract", "PaymentMethod", "InternetService", "PaperlessBilling">>

\* ------------------------------------------------------ call outcomes
NoExc == [about |-> {}, type |-> "none", value |-> None]
Ok(v) == [exc |-> NoExc, ok |-> TRUE, val |-> Some(v)]
\* An exception of the given Python type whose message names `about`
\* (a set of field / feature names) and the offending value, if any.
Raise(type, about, value) ==
    [exc |-> [about |-> about, type |-> type, value |-> value], ok |-> FALSE, val |-> None]

\* ------------------------------------------------ src/feature_engineering
calculate_ratio_monthly_charges_tenure_no_plus_one(monthly_charges, tenure) ==
    IF RatLE(monthly_charges, FromInt(0))
    THEN Raise("ValueError", {"MonthlyCharges"}, Some(monthly_charges))
    ELSE IF tenure < 0
    THEN Raise("ValueError", {"Tenure"}, Some(tenure))
    ELSE IF tenure = 0 THEN Ok(monthly_charges)
    ELSE Ok(RatDiv(monthly_charges, FromInt(tenure)))
calculate_ratio_monthly_charges_tenure(monthly_charges, tenure) ==
    IF RatLE(monthly_charges, FromInt(0))
    THEN Raise("ValueError", {"MonthlyCharges"}, Some(monthly_charges))
    ELSE IF tenure < 0
    THEN Raise("ValueError", {"Tenure"}, Some(tenure))
    ELSE Ok(RatDiv(monthly_charges, FromInt(tenure + 1)))

calculate_ratio_total_monthly_tenure_no_special_case(total_charges, monthly_charges, tenure) ==
    IF RatLT(total_charges, FromInt(0))
    THEN Raise("ValueError", {"TotalCharges"}, Some(total_charges))
    ELSE IF RatLE(monthly_charges, FromInt(0))
    THEN Raise("ValueError", {"MonthlyCharges"}, Some(monthly_charges))
    ELSE IF tenure < 0
    THEN Raise("ValueError", {"Tenure"}, Some(tenure))
    ELSE IF tenure = 0 /\ total_charges # FromInt(0)
    THEN Ok(FromInt(1))
    ELSE IF tenure = 0
    THEN Ok(FromInt(0))
    ELSE Ok(RatDiv(total_charges, RatMul(monthly_charges, FromInt(tenure))))
calculate_ratio_total_monthly_tenure(total_charges, monthly_charges, tenure) ==
    IF RatLT(total_charges, FromInt(0))
    THEN Raise("ValueError", {"TotalCharges"}, Some(total_charges))
    ELSE IF RatLE(monthly_charges, FromInt(0))
    THEN Raise("ValueError", {"MonthlyCharges"}, Some(monthly_charges))
    ELSE IF tenure < 0
    THEN Raise("ValueError", {"Tenure"}, Some(tenure))
    ELSE IF tenure = 0
    THEN Ok(FromInt(1))
    ELSE LET denominator == RatMul(monthly_charges, FromInt(tenure))
         IN  Ok(RatDiv(total_charges, denominator))

calculate_tenure_segment_encoded_strict_bins(tenure) ==
    IF tenure < 0
    THEN Raise("ValueError", {"Tenure"}, Some(tenure))
    ELSE LET segment == IF tenure < 6 THEN "Nouveaux_0-6m"
                        ELSE IF tenure < 12 THEN "Junior_6-12m"
                        ELSE IF tenure < 24 THEN "Moyen_12-24m"
                        ELSE "Senior_24m+"
         IN  Ok(TENURE_SEGMENT_MAPPING[segment])
calculate_tenure_segment_encoded(tenure) ==
    IF tenure < 0
    THEN Raise("ValueError", {"Tenure"}, Some(tenure))
    ELSE LET segment == IF tenure <= 6 THEN "Nouveaux_0-6m"
                        ELSE IF tenure <= 12 THEN "Junior_6-12m"
                        ELSE IF tenure <= 24 THEN "Moyen_12-24m"
                        ELSE "Senior_24m+"
         IN  Ok(TENURE_SEGMENT_MAPPING[segment])

calculate_is_new_customer_strict(tenure) ==
    IF tenure < 0
    THEN Raise("ValueError", {"Tenure"}, Some(tenure))
    ELSE Ok(IF tenure < 6 THEN 1 ELSE 0)
calculate_is_new_customer(tenure) ==
    IF tenure < 0
    THEN Raise("ValueError", {"Tenure"}, Some(tenure))
    ELSE Ok(IF tenure <= 6 THEN 1 ELSE 0)

EngineeredNames ==
    <<"Ratio_MonthlyCharges_tenure", "tenure_segment_encoded", "is_new_customer",
      "Ratio_TotalCharges_MonthlyCharges*tenure">>

compute_all_engineered_features_total_le(tenure, monthly_charges, total_charges) ==
    IF tenure < 0
    THEN Raise("ValueError", {"tenure"}, Some(tenure))
    ELSE IF RatLE(monthly_charges, FromInt(0))
    THEN Raise("ValueError", {"monthly_charges"}, Some(monthly_charges))
    ELSE IF RatLE(total_charges, FromInt(0))
    THEN Raise("ValueError", {"total_charges"}, Some(total_charges))
    ELSE Ok([n \in Range(EngineeredNames) |->
               CASE n = "Ratio_MonthlyCharges_tenure" ->
                        calculate_ratio_monthly_charges_tenure(monthly_charges, tenure).val[1]
                 [] n = "tenure_segment_encoded" -> calculate_tenure_segment_encoded(tenure).val[1]
                 [] n = "is_new_customer" -> calculate_is_new_customer(tenure).val[1]
                 [] n = "Ratio_TotalCharges_MonthlyCharges*tenure" ->
                        calculate_ratio_total_monthly_tenure(
                            total_charges, monthly_charges, tenure).val[1]])
\* The dict literal is evaluated entry by entry; the first entry that raises
\* ends the call and the exception is re-raised unchanged.
compute_all_engineered_features(tenure, monthly_charges, total_charges) ==
    IF tenure < 0
    THEN Raise("ValueError", {"tenure"}, Some(tenure))
    ELSE IF RatLE(monthly_charges, FromInt(0))
    THEN Raise("ValueError", {"monthly_charges"}, Some(monthly_charges))
    ELSE IF RatLT(total_charges, FromInt(0))
    THEN Raise("ValueError", {"total_charges"}, Some(total_charges))
    ELSE LET r1 == calculate_ratio_monthly_charges_tenure(monthly_charges, tenure)
             r2 == calculate_tenure_segment_encoded(tenure)
             r3 == calculate_is_new_customer(tenure)
             r4 == calculate_ratio_total_monthly_tenure(total_charges, monthly_charges, tenure)
         IN  IF ~r1.ok THEN r1
             ELSE IF ~r2.ok THEN r2
             ELSE IF ~r3.ok THEN r3
             ELSE IF ~r4.ok THEN r4
             ELSE Ok([n \in Range(EngineeredNames) |->
                        CASE n = "Ratio_MonthlyCharges_tenure" -> r1.val[1]
                          [] n = "tenure_segment_encoded"      -> r2.val[1]
                          [] n = "is_new_customer"             -> r3.val[1]
                          [] n = "Ratio_TotalCharges_MonthlyCharges*tenure" -> r4.val[1]])

validate_engineered_features_segment_below_3(features) ==
    IF \E n \in Range(EngineeredNames) : n \notin DOMAIN features
    THEN FALSE
    ELSE /\ RatGT(features["Ratio_MonthlyCharges_tenure"], FromInt(0))
         /\ features["tenure_segment_encoded"] \in {0, 1, 2}
         /\ features["is_new_customer"] \in {0, 1}
         /\ RatGE(features["Ratio_TotalCharges_MonthlyCharges*tenure"], FromInt(0))
validate_engineered_features(features) ==
    IF \E n \in Range(EngineeredNames) : n \notin DOMAIN features
    THEN FALSE
    ELSE /\ RatGT(features["Ratio_MonthlyCharges_tenure"], FromInt(0))
         /\ features["tenure_segment_encoded"] \in {0, 1, 2, 3}
         /\ features["is_new_customer"] \in {0, 1}
         /\ RatGE(features["Ratio_TotalCharges_MonthlyCharges*tenure"], FromInt(0))


\* ------------------------------------------------------- src/encoders.py
\* LabelEncoder.transform([value])[0]: the 0-based position of value in
\* classes_, or an error for a label the encoder was not fitted on.
transform(classes, value) ==
    IF value \in Range(classes)
    THEN Ok(IndexOf(classes, value))
    ELSE Raise("ValueError", {}, Some(value))

encode_feature_value_check_first(encs, mappings, feature_name, value) ==
    IF feature_name \notin DOMAIN mappings \/ value \notin Range(mappings[feature_name])
    THEN Raise("ValueError", {feature_name}, Some(value))
    ELSE IF feature_name \notin DOMAIN encs
    THEN Raise("KeyError", {feature_name}, None)
    ELSE transform(encs[feature_name], value)
encode_feature(encs, mappings, feature_name, value) ==
    IF feature_name \notin DOMAIN encs
    THEN Raise("KeyError", {feature_name}, None)
    ELSE IF value \notin Range(mappings[feature_name])
    THEN Raise("ValueError", {feature_name}, Some(value))
    ELSE LET r == transform(encs[feature_name], value)
         IN  IF r.ok THEN r
             ELSE Raise("ValueError", {feature_name}, Some(value))

\* data: a function from feature names to raw values.  The encoders are
\* visited in key order; the first failure propagates.
encode_all_features(encs, mappings, data) ==
    LET present == SelectSeq(EncoderKeyOrder,
                             LAMBDA f : f \in DOMAIN encs /\ f \in DOMAIN data)
        out(f) == encode_feature(encs, mappings, f, data[f])
        failed == SelectSeq(present, LAMBDA f : ~out(f).ok)
    IN  IF failed # <<>>
        THEN out(failed[1])
        ELSE Ok([f \in Range(present) |-> out(f).val[1]])

\* ------------------------------------- streamlit_cloud/src/preprocessing
ClientInputFields ==
    <<"contract", "tenure", "monthly_charges", "total_charges",
      "payment_method", "internet_service", "paperless_billing">>

FieldValid_total_unchecked(d, field) ==
    CASE field = "contract"          -> d.contract \in Range(CONTRACT_VALUES)
      [] field = "tenure"            -> d.tenure >= MIN_TENURE
      [] field = "monthly_charges"   -> RatGT(d.monthly_charges, MIN_MONTHLY_CHARGES)
      [] field = "total_charges"     -> TRUE
      [] field = "payment_method"    -> d.payment_method \in Range(PAYMENT_METHOD_VALUES)
      [] field = "internet_service"  -> d.internet_service \in Range(INTERNET_SERVICE_VALUES)
      [] field = "paperless_billing" -> d.paperless_billing \in Range(PAPERLESS_BILLING_VALUES)
\* Whether one field of the record passes its Field constraint / validator.
FieldValid(d, field) ==
    CASE field = "contract"          -> d.contract \in Range(CONTRACT_VALUES)
      [] field = "tenure"            -> d.tenure >= MIN_TENURE
      [] field = "monthly_charges"   -> RatGT(d.monthly_charges, MIN_MONTHLY_CHARGES)
      [] field = "total_charges"     -> RatGE(d.total_charges, MIN_TOTAL_CHARGES)
      [] field = "payment_method"    -> d.payment_method \in Range(PAYMENT_METHOD_VALUES)
      [] field = "internet_service"  -> d.internet_service \in Range(INTERNET_SERVICE_VALUES)
      [] field = "paperless_billing" -> d.paperless_billing \in Range(PAPERLESS_BILLING_VALUES)

\* ClientInput(**client_data): every field is validated, the failures are
\* collected in declaration order and raised together as one error.
ClientInput(d) ==
    LET errors == SelectSeq(ClientInputFields, LAMBDA f : ~FieldValid(d, f))
    IN  IF errors = <<>> THEN Ok(d)
        ELSE Raise("ValidationError", Range(errors), None)

\* Any failure of ClientInput is re-raised as one ValueError carrying the
\* text of the original error.
validate_input(client_data) ==
    LET r == ClientInput(client_data)
    IN  IF r.ok THEN r ELSE Raise("ValueError", r.exc.about, None)

encode_categorical_features_without_paperless(encs, mappings, validated_input) ==
    LET categorical_data ==
            [f \in ENCODER_FILES \ {"PaperlessBilling"} |->
                CASE f = "Contract"         -> validated_input.contract
                  [] f = "PaymentMethod"    -> validated_input.payment_method
                  [] f = "InternetService"  -> validated_input.internet_service]
    IN  encode_all_features(encs, mappings, categorical_data)
encode_categorical_features(encs, mappings, validated_input) ==
    LET categorical_data ==
            [f \in ENCODER_FILES |->
                CASE f = "Contract"         -> validated_input.contract
                  [] f = "PaymentMethod"    -> validated_input.payment_method
                  [] f = "InternetService"  -> validated_input.internet_service
                  [] f = "PaperlessBilling" -> validated_input.paperless_billing]
    IN  encode_all_features(encs, mappings, categorical_data)

compute_engineered_features_strict_gate(validated_input) ==
    LET r == compute_all_engineered_features(validated_input.tenure,
                                             validated_input.monthly_charges,
                                             validated_input.total_charges)
    IN  IF ~r.ok THEN r
        ELSE IF ~(/\ validate_engineered_features(r.val[1])
                  /\ RatGT(r.val[1]["Ratio_TotalCharges_MonthlyCharges*tenure"], FromInt(0)))
        THEN Raise("ValueError", {}, None)
        ELSE r
compute_engineered_features(validated_input) ==
    LET r == compute_all_engineered_features(validated_input.tenure,
                                             validated_input.monthly_charges,
                                             validated_input.total_charges)
    IN  IF ~r.ok THEN r
        ELSE IF ~validate_engineered_features(r.val[1])
        THEN Raise("ValueError", {}, None)
        ELSE r

\* Names whose Python value is an int; np.array(..., dtype=float64) turns
\* them into the float of the same value, floats are kept.
IntValued ==
    {"tenure", "Contract", "PaymentMethod", "InternetService", "PaperlessBilling",
     "tenure_segment_encoded", "is_new_customer"}
Float64(name, v) == IF name \in IntValued THEN FromInt(v) ELSE v

\* Later entries of the dict literal override earlier ones.
build_feature_vector(order, validated_input, encoded, engineered) ==
    LET raw == [n \in {"tenure", "MonthlyCharges", "TotalCharges"} |->
                   CASE n = "tenure"         -> validated_input.tenure
                     [] n = "MonthlyCharges" -> validated_input.monthly_charges
                     [] n = "TotalCharges"   -> validated_input.total_charges]
        all_features == engineered @@ encoded @@ raw
        missing == SelectSeq(order, LAMBDA n : n \notin DOMAIN all_features)
    IN  IF missing # <<>>
        THEN Raise("ValueError", {missing[1]}, None)
        ELSE Ok([i \in 1..Len(order) |-> Float64(order[i], all_features[order[i]])])


\* ------------------------------------------------------------ the inputs
Tenures == (-1 .. MaxTenure) \cup {100, 101}
MonthlyChargesInputs == {Cents(c) : c \in {-1050, 0, 1, 2, 5000, 7550}}
TotalChargesInputs == {Cents(c) : c \in {-100, 0, 60000, 90600}}

\* Every allowed value of each categorical field plus one that is not.
ContractInputs == Range(CONTRACT_VALUES) \cup {"Monthly"}
PaymentMethodInputs == Range(PAYMENT_METHOD_VALUES) \cup {"Cash"}
InternetServiceInputs == Range(INTERNET_SERVICE_VALUES) \cup {"Cable"}
PaperlessBillingInputs == Range(PAPERLESS_BILLING_VALUES) \cup {"Maybe"}

\* A few client records for the calls that take several records: the two
\* records of the pipeline test, a long-standing client, a record with
\* monthly_charges = 0.01 and one with a bad contract and a negative tenure.
SampleRecords ==
    << [contract |-> "Month-to-month", internet_service |-> "Fiber optic",
        monthly_charges |-> Cents(7550), paperless_billing |-> "Yes",
        payment_method |-> "Electronic check", tenure |-> 12,
        total_charges |-> Cents(90600)],
       [contract |-> "Month-to-month", internet_service |-> "Fiber optic",
        monthly_charges |-> Cents(5000), paperless_billing |-> "Yes",
        payment_method |-> "Electronic check", tenure |-> 0,
        total_charges |-> Cents(0)],
       [contract |-> "Two year", internet_service |-> "DSL",
        monthly_charges |-> Cents(5500), paperless_billing |-> "No",
        payment_method |-> "Credit card (automatic)", tenure |-> 36,
        total_charges |-> Cents(198000)],
       [contract |-> "One year", internet_service |-> "No",
        monthly_charges |-> Cents(1), paperless_billing |-> "No",
        payment_method |-> "Mailed check", tenure |-> 7,
        total_charges |-> Cents(0)],
       [contract |-> "Monthly", internet_service |-> "DSL",
        monthly_charges |-> Cents(7550), paperless_billing |-> "Yes",
        payment_method |-> "Bank transfer (automatic)", tenure |-> -1,
        total_charges |-> Cents(90600)] >>

\* The two Streamlit apps; each defines the history functions and runs in
\* its own session.
Apps == {"streamlit_app", "streamlit_cloud"}

\* The locals of a thread that is not inside preprocess.
NoCall ==
    [client_data |-> None, encoded_features |-> None, engineered_features |-> None,
     error |-> None, pc |-> "idle", result |-> None, validated_input |-> None]

\* Sample values of the entries of an engineered-features dict.
RatioSamples == {Rat(-1, 2), FromInt(0), Rat(1, 2), FromInt(1)}
SegmentSamples == {-1, 0, 3, 4}
IsNewSamples == {-1, 0, 1, 2}

FeatureNameInputs == ENCODER_FILES \cup {"tenure", "Gender"}
ValueInputs ==
    ContractInputs \cup PaymentMethodInputs \cup InternetServiceInputs
        \cup PaperlessBillingInputs

\* -------------------------------------------------------------- the state
VARIABLES
    encoders,            \* EncoderManager.encoders: feature -> classes_
    feature_mappings,    \* EncoderManager.feature_mappings: feature -> allowed values
    feature_order,       \* ChurnPreprocessor.feature_order
    op,                  \* the operation called last
    args,                \* its arguments (a record)
    pc,                  \* where the call stands
    validated_input,     \* preprocess local, None until set
    encoded_features,    \* preprocess local, None until set
    engineered_features, \* preprocess local, None until set
    result,              \* value returned by the call, None if none (yet)
    error,               \* exception raised by the call, None if none
    i,                   \* preprocess_batch / predict_batch: records handled so far
    feature_vectors,     \* preprocess_batch local
    metadatas,           \* preprocess_batch local
    results,             \* predict_batch local
    is_loaded,           \* ChurnPredictor.is_loaded
    optimal_threshold,   \* ChurnPredictor.optimal_threshold (None before loading)
    kept,                \* the outcome of an earlier preprocess call that the caller
                         \* kept, with the calls made since (None: none kept)
    calls,               \* concurrent preprocess calls: per thread the locals of
                         \* its call
    prediction_history,  \* st.session_state.prediction_history of each app's
                         \* session (None: the key is not set)
    saved                \* per app, how many predictions were saved since the
                         \* history was last cleared

\* The state of the callers that run beside the single caller.
session == <<prediction_history, saved>>

others == <<calls, session>>

vars == <<encoders, feature_mappings, feature_order, op, args, pc,
          validated_input, encoded_features, engineered_features, result, error,
          i, feature_vectors, metadatas, results, is_loaded, optimal_threshold, kept, others>>

tables == <<encoders, feature_mappings, feature_order>>

\* The locals of preprocess_batch and predict_batch.
batch == <<i, feature_vectors, metadatas, results>>

predictor == <<is_loaded, optimal_threshold>>

\* EncoderManager.__init__ and ChurnPreprocessor.__init__ have run.
InitPreprocessor ==
    /\ encoders = LoadedEncoders
    /\ feature_mappings =
          [f \in ENCODER_FILES |->
              CASE f = "Contract"         -> CONTRACT_VALUES
                [] f = "PaymentMethod"    -> PAYMENT_METHOD_VALUES
                [] f = "InternetService"  -> INTERNET_SERVICE_VALUES
                [] f = "PaperlessBilling" -> PAPERLESS_BILLING_VALUES]
    /\ feature_order = MODEL_FEATURES
    /\ op = "none"
    /\ args = None
    /\ pc = "idle"
    /\ validated_input = None
    /\ encoded_features = None
    /\ engineered_features = None
    /\ result = None
    /\ error = None
    /\ i = 0
    /\ feature_vectors = <<>>
    /\ metadatas = <<>>
    /\ results = <<>>
    /\ kept = None
    /\ calls = [t \in 1..MaxThreads |-> NoCall]
    /\ prediction_history = [app \in Apps |-> None]
    /\ saved = [app \in Apps |-> 0]

\* The preprocessor is constructed; no ChurnPredictor is loaded (the fields
\* as the first lines of ChurnPredictor.__init__ set them).
Init ==
    /\ InitPreprocessor
    /\ is_loaded = FALSE
    /\ optimal_threshold = None

\* A call that is one step (made when no call is in progress): record the
\* call and its outcome.
Return(name, a, r) ==
    /\ op' = name
    /\ args' = Some(a)
    /\ pc' = IF r.ok THEN "done" ELSE "error"
    /\ result' = r.val
    /\ error' = IF r.ok THEN None ELSE Some(r.exc)
    /\ validated_input' = None
    /\ encoded_features' = None
    /\ engineered_features' = None
    /\ UNCHANGED <<tables, predictor, batch, kept, others>>

\* ------------------------------------------------- direct calls (one step)
CallRatioMonthlyChargesTenure ==
    /\ pc = "idle"
    /\ \E m \in MonthlyChargesInputs, t \in Tenures :
        Return("calculate_ratio_monthly_charges_tenure",
               [monthly_charges |-> m, tenure |-> t],
               calculate_ratio_monthly_charges_tenure(m, t))

CallRatioTotalMonthlyTenure ==
    /\ pc = "idle"
    /\ \E tc \in TotalChargesInputs, m \in MonthlyChargesInputs, t \in Tenures :
        Return("calculate_ratio_total_monthly_tenure",
               [monthly_charges |-> m, tenure |-> t, total_charges |-> tc],
               calculate_ratio_total_monthly_tenure(tc, m, t))

CallTenureSegmentEncoded ==
    /\ pc = "idle"
    /\ \E t \in Tenures :
        Return("calculate_tenure_segment_encoded", [tenure |-> t],
               calculate_tenure_segment_encoded(t))

CallIsNewCustomer ==
    /\ pc = "idle"
    /\ \E t \in Tenures :
        Return("calculate_is_new_customer", [tenure |-> t],
               calculate_is_new_customer(t))

CallEncodeFeature_learns_value ==
    /\ pc = "idle"
    /\ \E f \in FeatureNameInputs, v \in ValueInputs :
        /\ op' = "encode_feature"
        /\ args' = Some([feature_name |-> f, value |-> v])
        /\ pc' = IF f \in DOMAIN encoders THEN "done" ELSE "error"
        /\ error' = IF f \in DOMAIN encoders THEN None
                    ELSE Some(Raise("KeyError", {f}, None).exc)
        /\ feature_mappings' =
              IF f \in DOMAIN encoders /\ v \notin Range(feature_mappings[f])
              THEN [feature_mappings EXCEPT ![f] = Append(@, v)]
              ELSE feature_mappings
        /\ result' = IF f \in DOMAIN encoders
                     THEN Some(IF v \in Range(feature_mappings[f])
                               THEN IndexOf(feature_mappings[f], v)
                               ELSE Len(feature_mappings[f]))
                     ELSE None
        /\ UNCHANGED <<encoders, feature_order, predictor, validated_input,
                       encoded_features, engineered_features, batch, kept, others>>

CallEncodeFeature ==
    /\ pc = "idle"
    /\ \E f \in FeatureNameInputs, v \in ValueInputs :
        Return("encode_feature", [feature_name |-> f, value |-> v],
               encode_feature(encoders, feature_mappings, f, v))

CallComputeAllEngineeredFeatures ==
    /\ pc = "idle"
    /\ \E t \in Tenures, m \in MonthlyChargesInputs, tc \in TotalChargesInputs :
        Return("compute_all_engineered_features",
               [monthly_charges |-> m, tenure |-> t, total_charges |-> tc],
               compute_all_engineered_features(t, m, tc))

\* The features dict handed to validate_engineered_features: every key is
\* either absent or bound to one of the sample values.
CallValidateEngineeredFeatures ==
    /\ pc = "idle"
    /\ \E keys \in SUBSET Range(EngineeredNames),
          rm \in RatioSamples, seg \in SegmentSamples,
          new \in IsNewSamples, rt \in RatioSamples :
        LET features ==
                [n \in keys |->
                    CASE n = "Ratio_MonthlyCharges_tenure" -> rm
                      [] n = "tenure_segment_encoded"      -> seg
                      [] n = "is_new_customer"             -> new
                      [] n = "Ratio_TotalCharges_MonthlyCharges*tenure" -> rt]
        IN  Return("validate_engineered_features", [features |-> features],
                   Ok(validate_engineered_features(features)))

\* ------------------------------------------- preprocess, stage by stage
PreprocessValidate_error_swallowed ==
    /\ pc = "idle"
    /\ \E c \in ContractInputs, is \in InternetServiceInputs, m \in MonthlyChargesInputs,
          b \in PaperlessBillingInputs, p \in PaymentMethodInputs, t \in Tenures,
          tc \in TotalChargesInputs :
        LET d == [contract |-> c, internet_service |-> is, monthly_charges |-> m,
                  paperless_billing |-> b, payment_method |-> p, tenure |-> t,
                  total_charges |-> tc]
        IN  /\ op' = "preprocess"
            /\ args' = Some(d)
            /\ validated_input' = Some(d)
            /\ encoded_features' = None
            /\ engineered_features' = None
            /\ result' = None
            /\ pc' = "validated"
            /\ error' = None
            /\ UNCHANGED <<tables, predictor, batch, kept, others>>
\* Entry and stage 1: validate_input.
PreprocessEnter(d) ==
    LET r == validate_input(d)
    IN  /\ op' = "preprocess"
        /\ args' = Some(d)
        /\ validated_input' = r.val
        /\ encoded_features' = None
        /\ engineered_features' = None
        /\ result' = None
        /\ pc' = IF r.ok THEN "validated" ELSE "error"
        /\ error' = IF r.ok THEN None ELSE Some(r.exc)
        /\ UNCHANGED <<tables, predictor, batch, kept, others>>

PreprocessValidate ==
    /\ pc = "idle"
    /\ \E c \in ContractInputs, is \in InternetServiceInputs, m \in MonthlyChargesInputs,
          b \in PaperlessBillingInputs, p \in PaymentMethodInputs, t \in Tenures,
          tc \in TotalChargesInputs :
        PreprocessEnter([contract |-> c, internet_service |-> is, monthly_charges |-> m,
                         paperless_billing |-> b, payment_method |-> p, tenure |-> t,
                         total_charges |-> tc])

\* Stage 2: encode_categorical_features.
PreprocessEncode ==
    /\ op = "preprocess" /\ pc = "validated"
    /\ LET r == encode_categorical_features(encoders, feature_mappings, validated_input[1])
       IN  /\ encoded_features' = r.val
           /\ pc' = IF r.ok THEN "encoded" ELSE "error"
           /\ error' = IF r.ok THEN None ELSE Some(r.exc)
    /\ UNCHANGED <<tables, predictor, op, args, validated_input, engineered_features, result, batch, kept, others>>

\* Stage 3: compute_engineered_features (with its validation gate).
PreprocessEngineer ==
    /\ op = "preprocess" /\ pc = "encoded"
    /\ LET r == compute_engineered_features(validated_input[1])
       IN  /\ engineered_features' = r.val
           /\ pc' = IF r.ok THEN "engineered" ELSE "error"
           /\ error' = IF r.ok THEN None ELSE Some(r.exc)
    /\ UNCHANGED <<tables, predictor, op, args, validated_input, encoded_features, result, batch, kept, others>>

\* Stage 4 and return: build_feature_vector, then the metadata.
PreprocessAssemble ==
    /\ op = "preprocess" /\ pc = "engineered"
    /\ LET r == build_feature_vector(feature_order, validated_input[1],
                                     encoded_features[1], engineered_features[1])
       IN  /\ pc' = IF r.ok THEN "done" ELSE "error"
           /\ error' = IF r.ok THEN None ELSE Some(r.exc)
           /\ result' =
                IF r.ok
                THEN Some([feature_vector |-> r.val[1],
                           metadata |->
                             [encoded_features |-> encoded_features[1],
                              engineered_features |-> engineered_features[1],
                              feature_names |-> feature_order,
                              feature_vector_shape |-> <<Len(r.val[1])>>,
                              input_data |-> validated_input[1]]])
                ELSE None
    /\ UNCHANGED <<tables, predictor, op, args, validated_input, encoded_features, engineered_features,
                   batch, kept, others>>

\* The caller has taken the returned value (or handled the exception): the
\* frame of the finished call is gone and the next call can be made.
CollectFrame ==
    /\ pc \in {"done", "error"}
    /\ op' = "none"
    /\ args' = None
    /\ pc' = "idle"
    /\ validated_input' = None
    /\ encoded_features' = None
    /\ engineered_features' = None
    /\ result' = None
    /\ error' = None
    /\ i' = 0
    /\ feature_vectors' = <<>>
    /\ metadatas' = <<>>
    /\ results' = <<>>
    /\ UNCHANGED <<tables, predictor, others>>

Collect ==
    /\ CollectFrame
    /\ UNCHANGED kept

Next ==
    \/ CallRatioMonthlyChargesTenure
    \/ CallRatioTotalMonthlyTenure
    \/ CallTenureSegmentEncoded
    \/ CallIsNewCustomer
    \/ CallEncodeFeature
    \/ CallComputeAllEngineeredFeatures
    \/ CallValidateEngineeredFeatures
    \/ PreprocessValidate
    \/ PreprocessEncode
    \/ PreprocessEngineer
    \/ PreprocessAssemble
    \/ Collect

Spec == Init /\ [][Next]_vars

\* ------------------------------------------- several records on one object
\* preprocess as one call: the four stages in order, the first exception
\* propagating unchanged.
preprocess(encs, mappings, order, client_data) ==
    LET v == validate_input(client_data)
    IN  IF ~v.ok THEN v
        ELSE
        LET enc == encode_categorical_features(encs, mappings, v.val[1])
        IN  IF ~enc.ok THEN enc
            ELSE
            LET eng == compute_engineered_features(v.val[1])
            IN  IF ~eng.ok THEN eng
                ELSE
                LET fv == build_feature_vector(order, v.val[1], enc.val[1], eng.val[1])
                IN  IF ~fv.ok THEN fv
                    ELSE Ok([feature_vector |-> fv.val[1],
                             metadata |->
                               [encoded_features |-> enc.val[1],
                                engineered_features |-> eng.val[1],
                                feature_names |-> order,
                                feature_vector_shape |-> <<Len(fv.val[1])>>,
                                input_data |-> v.val[1]]])

\* EncoderManager.get_all_features_info: per loaded encoder the allowed
\* values, the value -> code mapping (None where transform fails) and the
\* classes.
get_all_features_info(encs, mappings) ==
    [name \in DOMAIN encs |->
        [allowed_values |-> mappings[name],
         encoder_classes |-> encs[name],
         feature_name |-> name,
         mapping |-> [value \in Range(mappings[name]) |->
                         transform(encs[name], value).val]]]

\* ChurnPreprocessor.get_feature_info.
get_feature_info(encs, mappings, order) ==
    [categorical_features_info |-> get_all_features_info(encs, mappings),
     input_constraints |-> [monthly_charges |-> <<">", MIN_MONTHLY_CHARGES>>,
                            tenure |-> <<">=", MIN_TENURE>>,
                            total_charges |-> <<">=", MIN_TOTAL_CHARGES>>],
     model_features |-> order]

\* The ValueError preprocess_batch raises for the record at index i whose
\* preprocess raised e.
batch_error_one_based(n, e) ==
    [about |-> e.about, cause |-> e.type, client |-> n + 1, type |-> "ValueError",
     value |-> e.value]

batch_error(n, e) ==
    [about |-> e.about, cause |-> e.type, client |-> n, type |-> "ValueError",
     value |-> e.value]

\* preprocess on one of the sample records (stage 1; the other stages are
\* the actions above).
PreprocessSample ==
    /\ pc = "idle"
    /\ \E k \in 1..Len(SampleRecords) : PreprocessEnter(SampleRecords[k])

\* preprocess_batch is called with up to MaxBatch sample records.
PreprocessBatchCall ==
    /\ pc = "idle"
    /\ \E n \in 0..MaxBatch :
        \E b \in [1..n -> 1..Len(SampleRecords)] :
            /\ op' = "preprocess_batch"
            /\ args' = Some([j \in 1..n |-> SampleRecords[b[j]]])
            /\ pc' = "loop"
            /\ i' = 0
            /\ feature_vectors' = <<>>
            /\ metadatas' = <<>>
            /\ results' = <<>>
            /\ UNCHANGED <<tables, predictor, validated_input, encoded_features, engineered_features,
                           result, error, kept, others>>

\* One iteration of the loop: preprocess the record at index i; append
\* its vector and metadata, or raise the batch error.
PreprocessBatchIterate_prepends ==
    /\ op = "preprocess_batch" /\ pc = "loop" /\ i < Len(args[1])
    /\ LET r == preprocess(encoders, feature_mappings, feature_order, args[1][i + 1])
       IN  IF r.ok
           THEN /\ feature_vectors' = <<r.val[1].feature_vector>> \o feature_vectors
                /\ metadatas' = <<r.val[1].metadata>> \o metadatas
                /\ i' = i + 1
                /\ UNCHANGED <<pc, error, results>>
           ELSE /\ pc' = "error"
                /\ error' = Some(batch_error(i, r.exc))
                /\ UNCHANGED batch
    /\ UNCHANGED <<tables, predictor, op, args, validated_input, encoded_features, engineered_features,
                   result, kept, others>>

PreprocessBatchIterate ==
    /\ op = "preprocess_batch" /\ pc = "loop" /\ i < Len(args[1])
    /\ LET r == preprocess(encoders, feature_mappings, feature_order, args[1][i + 1])
       IN  IF r.ok
           THEN /\ feature_vectors' = Append(feature_vectors, r.val[1].feature_vector)
                /\ metadatas' = Append(metadatas, r.val[1].metadata)
                /\ i' = i + 1
                /\ UNCHANGED <<pc, error, results>>
           ELSE /\ pc' = "error"
                /\ error' = Some(batch_error(i, r.exc))
                /\ UNCHANGED batch
    /\ UNCHANGED <<tables, predictor, op, args, validated_input, encoded_features, engineered_features,
                   result, kept, others>>

\* The loop is over: the matrix of the vectors and the metadatas are returned.
PreprocessBatchReturn ==
    /\ op = "preprocess_batch" /\ pc = "loop" /\ i = Len(args[1])
    /\ pc' = "done"
    /\ result' = Some([feature_matrix |-> feature_vectors, metadatas |-> metadatas])
    /\ UNCHANGED <<tables, predictor, op, args, validated_input, encoded_features, engineered_features,
                   error, batch, kept, others>>

GetFeatureInfo_reverses_order ==
    /\ pc = "idle"
    /\ op' = "get_feature_info"
    /\ args' = Some(<<>>)
    /\ pc' = "done"
    /\ result' = Some(get_feature_info(encoders, feature_mappings, feature_order))
    /\ feature_order' = [n \in 1..Len(feature_order) |->
                            feature_order[Len(feature_order) + 1 - n]]
    /\ UNCHANGED <<encoders, feature_mappings, predictor, validated_input,
                   encoded_features, engineered_features, error, batch, kept, others>>

GetFeatureInfo ==
    /\ pc = "idle"
    /\ Return("get_feature_info", <<>>,
              Ok(get_feature_info(encoders, feature_mappings, feature_order)))

\* The caller keeps what a finished preprocess call gave (as the tests keep
\* feature_vector and metadata) to compare it with later calls.
Keep ==
    /\ op = "preprocess"
    /\ kept = None
    /\ CollectFrame
    /\ kept' = Some([client_data |-> args[1], error |-> error, later |-> {},
                     result |-> result])

\* Any finished call is collected; it counts as a call made since the kept one.
CollectLater ==
    /\ CollectFrame
    /\ kept' = IF kept = None THEN None
               ELSE Some([kept[1] EXCEPT !.later = @ \cup {op}])

NextBatch ==
    \/ PreprocessSample
    \/ PreprocessEncode
    \/ PreprocessEngineer
    \/ PreprocessAssemble
    \/ PreprocessBatchCall
    \/ PreprocessBatchIterate
    \/ PreprocessBatchReturn
    \/ GetFeatureInfo
    \/ Keep
    \/ CollectLater

SpecBatch == Init /\ [][NextBatch]_vars

\* ------------------------------------------------- concurrent preprocess
\* Thread t enters preprocess on a sample record: stage 1, validate_input.
\* Every intermediate value is a local of the call.
ThreadValidate_on_self(t) ==
    /\ calls[t].pc = "idle"
    /\ \E k \in 1..Len(SampleRecords) :
        LET r == validate_input(SampleRecords[k])
        IN  calls' =
              [u \in 1..MaxThreads |->
                  IF u = t
                  THEN [NoCall EXCEPT !.client_data = Some(SampleRecords[k]),
                                      !.validated_input = r.val,
                                      !.pc = IF r.ok THEN "validated" ELSE "error",
                                      !.error = IF r.ok THEN None ELSE Some(r.exc)]
                  ELSE IF calls[u].pc \in {"validated", "encoded", "engineered"} /\ r.ok
                  THEN [calls[u] EXCEPT !.validated_input = r.val]
                  ELSE calls[u]]
    /\ UNCHANGED <<tables, predictor, op, args, pc, validated_input, encoded_features,
                   engineered_features, result, error, batch, kept, session>>

ThreadValidate(t) ==
    /\ calls[t].pc = "idle"
    /\ \E k \in 1..Len(SampleRecords) :
        LET r == validate_input(SampleRecords[k])
        IN  calls' = [calls EXCEPT ![t] =
                        [NoCall EXCEPT !.client_data = Some(SampleRecords[k]),
                                       !.validated_input = r.val,
                                       !.pc = IF r.ok THEN "validated" ELSE "error",
                                       !.error = IF r.ok THEN None ELSE Some(r.exc)]]
    /\ UNCHANGED <<tables, predictor, op, args, pc, validated_input, encoded_features,
                   engineered_features, result, error, batch, kept, session>>

\* Stage 2 of thread t.
ThreadEncode(t) ==
    /\ calls[t].pc = "validated"
    /\ LET r == encode_categorical_features(encoders, feature_mappings,
                                            calls[t].validated_input[1])
       IN  calls' = [calls EXCEPT ![t].encoded_features = r.val,
                                  ![t].pc = IF r.ok THEN "encoded" ELSE "error",
                                  ![t].error = IF r.ok THEN None ELSE Some(r.exc)]
    /\ UNCHANGED <<tables, predictor, op, args, pc, validated_input, encoded_features,
                   engineered_features, result, error, batch, kept, session>>

\* Stage 3 of thread t.
ThreadEngineer(t) ==
    /\ calls[t].pc = "encoded"
    /\ LET r == compute_engineered_features(calls[t].validated_input[1])
       IN  calls' = [calls EXCEPT ![t].engineered_features = r.val,
                                  ![t].pc = IF r.ok THEN "engineered" ELSE "error",
                                  ![t].error = IF r.ok THEN None ELSE Some(r.exc)]
    /\ UNCHANGED <<tables, predictor, op, args, pc, validated_input, encoded_features,
                   engineered_features, result, error, batch, kept, session>>

\* Stage 4 of thread t, the metadata and the return.
ThreadAssemble(t) ==
    /\ calls[t].pc = "engineered"
    /\ LET c == calls[t]
           r == build_feature_vector(feature_order, c.validated_input[1],
                                     c.encoded_features[1], c.engineered_features[1])
       IN  calls' =
             [calls EXCEPT
                ![t].pc = IF r.ok THEN "done" ELSE "error",
                ![t].error = IF r.ok THEN None ELSE Some(r.exc),
                ![t].result =
                    IF r.ok
                    THEN Some([feature_vector |-> r.val[1],
                               metadata |->
                                 [encoded_features |-> c.encoded_features[1],
                                  engineered_features |-> c.engineered_features[1],
                                  feature_names |-> feature_order,
                                  feature_vector_shape |-> <<Len(r.val[1])>>,
                                  input_data |-> c.validated_input[1]]])
                    ELSE None]
    /\ UNCHANGED <<tables, predictor, op, args, pc, validated_input, encoded_features,
                   engineered_features, result, error, batch, kept, session>>

\* The caller of thread t has taken what the call gave.
ThreadCollect(t) ==
    /\ calls[t].pc \in {"done", "error"}
    /\ calls' = [calls EXCEPT ![t] = NoCall]
    /\ UNCHANGED <<tables, predictor, op, args, pc, validated_input, encoded_features,
                   engineered_features, result, error, batch, kept, session>>

NextThreads ==
    \E t \in 1..MaxThreads :
        \/ ThreadValidate(t)
        \/ ThreadEncode(t)
        \/ ThreadEngineer(t)
        \/ ThreadAssemble(t)
        \/ ThreadCollect(t)

SpecThreads == Init /\ [][NextThreads]_vars

\* ---------------------------------------------------- prediction history
\* The most entries the history keeps.
HISTORY_LIMIT == 50

\* save_prediction_to_history on the history (None: key not set); data
\* stands for the client data and the prediction saved (the timestamp is
\* left out).
save_prediction_to_history_keeps_oldest(history, data) ==
    LET current == IF history = None THEN <<>> ELSE history[1]
        history_entry == [data |-> data, id |-> Len(current) + 1]
        appended == Append(current, history_entry)
    IN  Some(IF Len(appended) > HISTORY_LIMIT
             THEN SubSeq(appended, 1, HISTORY_LIMIT)
             ELSE appended)

save_prediction_to_history(history, data) ==
    LET current == IF history = None THEN <<>> ELSE history[1]
        history_entry == [data |-> data, id |-> Len(current) + 1]
        appended == Append(current, history_entry)
    IN  Some(IF Len(appended) > HISTORY_LIMIT
             THEN SubSeq(appended, Len(appended) - HISTORY_LIMIT + 1, Len(appended))
             ELSE appended)

\* A prediction is saved in the session of an app; what is saved is
\* identified by its rank among the saves since the last clear.
SavePredictionToHistory(app) ==
    /\ saved[app] < MaxSaves
    /\ prediction_history' =
          [prediction_history EXCEPT
              ![app] = save_prediction_to_history(@, saved[app] + 1)]
    /\ saved' = [saved EXCEPT ![app] = @ + 1]
    /\ UNCHANGED <<tables, predictor, op, args, pc, validated_input, encoded_features,
                   engineered_features, result, error, batch, kept, calls>>

\* clear_prediction_history.
ClearPredictionHistory(app) ==
    /\ prediction_history' = [prediction_history EXCEPT ![app] = Some(<<>>)]
    /\ saved' = [saved EXCEPT ![app] = 0]
    /\ UNCHANGED <<tables, predictor, op, args, pc, validated_input, encoded_features,
                   engineered_features, result, error, batch, kept, calls>>

NextSession ==
    \E app \in Apps :
        \/ SavePredictionToHistory(app)
        \/ ClearPredictionHistory(app)

SpecSession == Init /\ [][NextSession]_vars

\* ------------------------------------------------ every call on the tables
\* EncoderManager.validate_input_values: per feature of the mappings that
\* the data holds, whether its value is an allowed one.
validate_input_values(mappings, data) ==
    [f \in DOMAIN mappings \cap DOMAIN data |-> data[f] \in Range(mappings[f])]

\* Dicts given to encode_all_features and validate_input_values: any part
\* of three keys (one of them not a categorical feature), each with an
\* allowed or a foreign value.
DataKeys == {"Contract", "PaperlessBilling", "Gender"}
DataValues == {"One year", "Yes", "Maybe"}
DataInputs ==
    {[f \in S |-> pick[f]] : S \in SUBSET DataKeys, pick \in [DataKeys -> DataValues]}

CallEncodeAllFeatures ==
    /\ pc = "idle"
    /\ \E data \in DataInputs :
        Return("encode_all_features", data,
               encode_all_features(encoders, feature_mappings, data))

CallValidateInputValues ==
    /\ pc = "idle"
    /\ \E data \in DataInputs :
        Return("validate_input_values", data,
               Ok(validate_input_values(feature_mappings, data)))

\* get_feature_info of the EncoderManager for every loaded encoder.
CallGetAllFeaturesInfo ==
    /\ pc = "idle"
    /\ Return("get_all_features_info", <<>>,
              Ok(get_all_features_info(encoders, feature_mappings)))

NextTables ==
    \/ CallEncodeFeature
    \/ CallEncodeAllFeatures
    \/ CallValidateInputValues
    \/ CallGetAllFeaturesInfo
    \/ GetFeatureInfo
    \/ PreprocessSample
    \/ PreprocessEncode
    \/ PreprocessEngineer
    \/ PreprocessAssemble
    \/ PreprocessBatchCall
    \/ PreprocessBatchIterate
    \/ PreprocessBatchReturn
    \/ Collect

SpecTables == Init /\ [][NextTables]_vars

\* ------------------------------------------- streamlit_cloud/model_wrapper
\* The trained model and the threshold are artefacts loaded at construction.
\* The model is an opaque scoring function: a call of predict_proba gives a
\* churn probability in [0, 1], or raises.
ProbabilitySamples == {Rat(1, 2), Rat(9, 10)}
predict_proba == {Ok(p) : p \in ProbabilitySamples} \cup {Raise("Exception", {}, None)}

ThresholdSamples == {Rat(1, 2), Rat(13, 20)}

\* A ChurnPredictionResult as its constructor leaves it (the timestamp is
\* left out).
ChurnPredictionResult(client_id) ==
    [business_recommendation |-> <<"">>,
     churn_prediction |-> 0,
     churn_probability |-> FromInt(0),
     client_id |-> client_id,
     confidence_score |-> FromInt(0),
     model_metadata |-> None,
     risk_level |-> ""]

\* _interpret_probability: <<risk_level, business_recommendation>>, the
\* recommendation given by its leading keyword.
interpret_probability_low_labels_swapped(threshold, probability) ==
    IF RatGE(probability, threshold)
    THEN IF RatGE(probability, Rat(8, 10)) THEN <<"Critical Risk", "ACTION IMMEDIATE">>
         ELSE IF RatGE(probability, Rat(65, 100)) THEN <<"High Risk", "PRIORITE ELEVEE">>
         ELSE <<"Medium-High Risk", "SURVEILLANCE">>
    ELSE IF RatGE(probability, Rat(4, 10)) THEN <<"Medium Risk", "MONITORING">>
         ELSE IF RatGE(probability, Rat(2, 10)) THEN <<"Low Risk", "STABLE">>
         ELSE <<"Low-Medium Risk", "TRACKING">>

interpret_probability(threshold, probability) ==
    IF RatGE(probability, threshold)
    THEN IF RatGE(probability, Rat(8, 10)) THEN <<"Critical Risk", "ACTION IMMEDIATE">>
         ELSE IF RatGE(probability, Rat(65, 100)) THEN <<"High Risk", "PRIORITE ELEVEE">>
         ELSE <<"Medium-High Risk", "SURVEILLANCE">>
    ELSE IF RatGE(probability, Rat(4, 10)) THEN <<"Medium Risk", "MONITORING">>
         ELSE IF RatGE(probability, Rat(2, 10)) THEN <<"Low-Medium Risk", "TRACKING">>
         ELSE <<"Low Risk", "STABLE">>

\* _calculate_confidence: the divisor max(threshold, 1 - threshold).
max_distance(threshold) ==
    LET rest == RatSub(FromInt(1), threshold)
    IN  IF RatGE(threshold, rest) THEN threshold ELSE rest

\* _calculate_confidence (for a divisor that is not zero).
calculate_confidence_no_floor(threshold, probability) ==
    LET distance_to_threshold == RatAbs(RatSub(probability, threshold))
        confidence == RatDiv(distance_to_threshold, max_distance(threshold))
    IN  IF RatLE(confidence, FromInt(1)) THEN confidence ELSE FromInt(1)

calculate_confidence(threshold, probability) ==
    LET distance_to_threshold == RatAbs(RatSub(probability, threshold))
        confidence == RatAdd(Rat(1, 2),
                             RatMul(RatDiv(distance_to_threshold, max_distance(threshold)),
                                    Rat(1, 2)))
    IN  IF RatLE(confidence, FromInt(1)) THEN confidence ELSE FromInt(1)

\* The try block of predict_single: preprocessed is what the preprocessor
\* gave for the record, scored what the model's predict_proba gives for the
\* feature vector. Any exception is re-raised as a ValueError.
predict_single_try_strict_threshold(threshold, preprocessed, client_id, scored) ==
    IF ~preprocessed.ok
    THEN Raise("ValueError", preprocessed.exc.about, preprocessed.exc.value)
    ELSE IF ~scored.ok
    THEN Raise("ValueError", scored.exc.about, scored.exc.value)
    ELSE
    LET churn_probability == scored.val[1]
        preprocessing_metadata == preprocessed.val[1].metadata
    IN  Ok([business_recommendation |->
                <<interpret_probability(threshold, churn_probability)[2]>>,
            churn_prediction |-> IF RatGT(churn_probability, threshold) THEN 1 ELSE 0,
            churn_probability |-> churn_probability,
            client_id |-> client_id,
            confidence_score |-> calculate_confidence(threshold, churn_probability),
            model_metadata |->
                Some([features_used |-> preprocessing_metadata.feature_names,
                      model_version |-> "XGBoost_Champion_11_Features",
                      optimal_threshold |-> threshold,
                      preprocessing_metadata |-> preprocessing_metadata]),
            risk_level |-> interpret_probability(threshold, churn_probability)[1]])

predict_single_try(threshold, preprocessed, client_id, scored) ==
    IF ~preprocessed.ok
    THEN Raise("ValueError", preprocessed.exc.about, preprocessed.exc.value)
    ELSE IF ~scored.ok
    THEN Raise("ValueError", scored.exc.about, scored.exc.value)
    ELSE
    LET churn_probability == scored.val[1]
        preprocessing_metadata == preprocessed.val[1].metadata
    IN  Ok([business_recommendation |->
                <<interpret_probability(threshold, churn_probability)[2]>>,
            churn_prediction |-> IF RatGE(churn_probability, threshold) THEN 1 ELSE 0,
            churn_probability |-> churn_probability,
            client_id |-> client_id,
            confidence_score |-> calculate_confidence(threshold, churn_probability),
            model_metadata |->
                Some([features_used |-> preprocessing_metadata.feature_names,
                      model_version |-> "XGBoost_Champion_11_Features",
                      optimal_threshold |-> threshold,
                      preprocessing_metadata |-> preprocessing_metadata]),
            risk_level |-> interpret_probability(threshold, churn_probability)[1]])

\* predict_single: the loaded check, then the try block.
predict_single(loaded, threshold, encs, mappings, order, client_data, client_id, scored) ==
    IF ~loaded
    THEN Raise("RuntimeError", {}, None)
    ELSE predict_single_try(threshold, preprocess(encs, mappings, order, client_data),
                            client_id, scored)

\* The result predict_batch substitutes for a record whose prediction
\* raised e.
error_result(client_id, e) ==
    [ChurnPredictionResult(client_id) EXCEPT
        !.risk_level = "Error",
        !.business_recommendation = <<"Erreur", e>>]

\* Client identifiers: the ones a caller gives, and the default "client_{i}".
GivenId(n) == <<"batch", n>>
DefaultId(n) == <<"client", n>>

\* The client_ids predict_batch works with: the given ones, or the defaults.
BatchClientIds(a) ==
    IF a.client_ids = None
    THEN [n \in 1..Len(a.clients_data) |-> DefaultId(n - 1)]
    ELSE a.client_ids[1]

\* The state after ChurnPredictor() returned: the artefacts are loaded
\* (otherwise the constructor raises and there is no object).
InitPredict ==
    /\ InitPreprocessor
    /\ is_loaded = TRUE
    /\ optimal_threshold \in {Some(t) : t \in ThresholdSamples}

PredictSingle ==
    /\ pc = "idle"
    /\ \E k \in 1..Len(SampleRecords), client_id \in {None, Some(GivenId(1))},
          scored \in predict_proba :
        Return("predict_single",
               [client_data |-> SampleRecords[k], client_id |-> client_id],
               predict_single(is_loaded, optimal_threshold[1], encoders, feature_mappings,
                              feature_order, SampleRecords[k], client_id, scored))

\* predict_batch up to the loop: the loaded check, the default ids, the
\* length check. The caller gives no ids, one id per record, or one too many.
PredictBatchCall ==
    /\ pc = "idle"
    /\ \E n \in 0..MaxBatch :
        \E b \in [1..n -> 1..Len(SampleRecords)] :
        \E ids \in {None, Some([j \in 1..n |-> GivenId(j)]),
                     Some([j \in 1..(n + 1) |-> GivenId(j)])} :
            LET a == [client_ids |-> ids,
                      clients_data |-> [j \in 1..n |-> SampleRecords[b[j]]]]
                r == IF ~is_loaded THEN Raise("RuntimeError", {}, None)
                     ELSE IF Len(BatchClientIds(a)) # Len(a.clients_data)
                     THEN Raise("ValueError", {"client_ids"}, None)
                     ELSE Ok(<<>>)
            IN  /\ op' = "predict_batch"
                /\ args' = Some(a)
                /\ pc' = IF r.ok THEN "loop" ELSE "error"
                /\ error' = IF r.ok THEN None ELSE Some(r.exc)
                /\ i' = 0
                /\ results' = <<>>
                /\ UNCHANGED <<tables, predictor, validated_input, encoded_features,
                               engineered_features, result, feature_vectors, metadatas, kept, others>>

\* One iteration of the loop: predict_single on the record at index i with
\* its id; its result, or the error result, is appended.
PredictBatchIterate_aborts ==
    /\ op = "predict_batch" /\ pc = "loop" /\ i < Len(args[1].clients_data)
    /\ \E scored \in predict_proba :
        LET client_id == Some(BatchClientIds(args[1])[i + 1])
            r == predict_single(is_loaded, optimal_threshold[1], encoders, feature_mappings,
                                feature_order, args[1].clients_data[i + 1], client_id, scored)
        IN  IF r.ok
            THEN /\ results' = Append(results, r.val[1])
                 /\ i' = i + 1
                 /\ UNCHANGED <<pc, error>>
            ELSE /\ pc' = "error"
                 /\ error' = Some(r.exc)
                 /\ UNCHANGED <<i, results>>
    /\ UNCHANGED <<tables, predictor, op, args, validated_input, encoded_features,
                   engineered_features, result, feature_vectors, metadatas, kept, others>>

PredictBatchIterate ==
    /\ op = "predict_batch" /\ pc = "loop" /\ i < Len(args[1].clients_data)
    /\ \E scored \in predict_proba :
        LET client_id == Some(BatchClientIds(args[1])[i + 1])
            r == predict_single(is_loaded, optimal_threshold[1], encoders, feature_mappings,
                                feature_order, args[1].clients_data[i + 1], client_id, scored)
        IN  /\ results' = Append(results, IF r.ok THEN r.val[1]
                                          ELSE error_result(client_id, r.exc))
            /\ i' = i + 1
    /\ UNCHANGED <<tables, predictor, op, args, pc, validated_input, encoded_features,
                   engineered_features, result, error, feature_vectors, metadatas, kept, others>>

PredictBatchReturn ==
    /\ op = "predict_batch" /\ pc = "loop" /\ i = Len(args[1].clients_data)
    /\ pc' = "done"
    /\ result' = Some(results)
    /\ UNCHANGED <<tables, predictor, op, args, validated_input, encoded_features,
                   engineered_features, error, batch, kept, others>>

\* ------------------------------------------------- scoring and health check
\* Probabilities and thresholds on a grid of twentieths of [0, 1]: it holds
\* every cut of the risk table (0.2, 0.4, 0.65, 0.8) and both ends.
ProbabilityGrid == {Rat(n, 20) : n \in 0..20}
ThresholdGrid == {Rat(n, 20) : n \in 0..20}

\* What the model's predict_proba may give: any probability, or an exception.
ScoreOutcomes == {Ok(p) : p \in ProbabilityGrid} \cup {Raise("Exception", {}, None)}

\* The record health_check tests the predictor with.
test_data ==
    [contract |-> "Month-to-month", internet_service |-> "Fiber optic",
     monthly_charges |-> Cents(7500), paperless_billing |-> "Yes",
     payment_method |-> "Electronic check", tenure |-> 12,
     total_charges |-> Cents(90000)]

\* health_check: test_result is what predict_single gave on test_data (it
\* is only called when the model is loaded). The timestamp is left out.
health_check_ignores_failure(loaded, threshold, test_result) ==
    LET health == [model_loaded |-> loaded,
                   preprocessor_ready |-> TRUE,
                   status |-> IF loaded THEN "healthy" ELSE "unhealthy",
                   threshold_loaded |-> threshold # None]
    IN  IF ~loaded THEN health
        ELSE IF test_result.ok
        THEN [f \in DOMAIN health \cup {"test_prediction_success", "test_probability"} |->
                CASE f = "test_prediction_success" -> TRUE
                  [] f = "test_probability" -> test_result.val[1].churn_probability
                  [] OTHER -> health[f]]
        ELSE [f \in DOMAIN health \cup {"test_prediction_success", "test_error"} |->
                CASE f = "test_prediction_success" -> FALSE
                  [] f = "test_error" -> test_result.exc
                  [] OTHER -> health[f]]

health_check(loaded, threshold, test_result) ==
    LET health == [model_loaded |-> loaded,
                   preprocessor_ready |-> TRUE,
                   status |-> IF loaded THEN "healthy" ELSE "unhealthy",
                   threshold_loaded |-> threshold # None]
    IN  IF ~loaded THEN health
        ELSE IF test_result.ok
        THEN [f \in DOMAIN health \cup {"test_prediction_success", "test_probability"} |->
                CASE f = "test_prediction_success" -> TRUE
                  [] f = "test_probability" -> test_result.val[1].churn_probability
                  [] OTHER -> health[f]]
        ELSE [f \in DOMAIN health \cup {"test_prediction_success", "test_error"} |->
                CASE f = "status" -> "degraded"
                  [] f = "test_prediction_success" -> FALSE
                  [] f = "test_error" -> test_result.exc
                  [] OTHER -> health[f]]

\* A loaded predictor whose threshold is any point of the grid.
InitScoring ==
    /\ InitPreprocessor
    /\ is_loaded = TRUE
    /\ optimal_threshold \in {Some(t) : t \in ThresholdGrid}

CallInterpretProbability ==
    /\ pc = "idle"
    /\ \E p \in ProbabilityGrid :
        Return("_interpret_probability", [probability |-> p],
               Ok(interpret_probability(optimal_threshold[1], p)))

\* Python raises ZeroDivisionError when the divisor is zero.
CallCalculateConfidence ==
    /\ pc = "idle"
    /\ \E p \in ProbabilityGrid :
        Return("_calculate_confidence", [probability |-> p],
               IF max_distance(optimal_threshold[1]) = FromInt(0)
               THEN Raise("ZeroDivisionError", {}, None)
               ELSE Ok(calculate_confidence(optimal_threshold[1], p)))

\* predict_single with any score of the model.
PredictSingleScored ==
    /\ pc = "idle"
    /\ \E k \in 1..Len(SampleRecords), scored \in ScoreOutcomes :
        Return("predict_single",
               [client_data |-> SampleRecords[k], client_id |-> Some(GivenId(1))],
               predict_single(is_loaded, optimal_threshold[1], encoders, feature_mappings,
                              feature_order, SampleRecords[k], Some(GivenId(1)), scored))

HealthCheck ==
    /\ pc = "idle"
    /\ \E scored \in ScoreOutcomes :
        Return("health_check", [scored |-> scored],
               Ok(health_check(is_loaded, optimal_threshold,
                               predict_single(is_loaded, optimal_threshold[1], encoders,
                                              feature_mappings, feature_order, test_data,
                                              Some("health_check"), scored))))

NextScoring ==
    \/ CallInterpretProbability
    \/ CallCalculateConfidence
    \/ PredictSingleScored
    \/ HealthCheck
    \/ Collect

SpecScoring == InitScoring /\ [][NextScoring]_vars

NextPredict ==
    \/ PredictSingle
    \/ PredictBatchCall
    \/ PredictBatchIterate
    \/ PredictBatchReturn
    \/ Collect

SpecPredict == InitPredict /\ [][NextPredict]_vars


\* =================================================================
\* Properties
\* =================================================================

\* r is the rational n/d (d > 0), stated by cross-multiplication.
IsQuotient(r, n, d) == r.den > 0 /\ r.num * d = n * r.den

\* The allowed values of the raw fields, as the data model lists them.
AllowedContract == {"Month-to-month", "One year", "Two year"}
AllowedPaymentMethod ==
    {"Bank transfer (automatic)", "Credit card (automatic)", "Electronic check", "Mailed check"}
AllowedInternetService == {"DSL", "Fiber optic", "No"}
AllowedPaperlessBilling == {"No", "Yes"}

\* A preprocess call has finished its validation stage.
PreprocessValidated == op = "preprocess" /\ pc # "idle"
\* A preprocess call has ended (returned or raised).
PreprocessEnded == op = "preprocess" /\ pc \in {"done", "error"}

\* The step function of the tenure segments.
ExpectedSegment(t) == IF t <= 6 THEN 0 ELSE IF t <= 12 THEN 1 ELSE IF t <= 24 THEN 2 ELSE 3

\* C1: for every input accepted by validation, preprocess returns a vector of
\* exactly 11 elements laid out as [Ratio_MonthlyCharges_tenure, Contract,
\* tenure, MonthlyCharges, tenure_segment_encoded, TotalCharges,
\* is_new_customer, PaymentMethod, InternetService, PaperlessBilling,
\* Ratio_TotalCharges_MonthlyCharges*tenure]: the raw values as validated, the
\* encoder codes of the four categorical values and the four computed features.
C1_VectorLayout ==
    (PreprocessEnded /\ validated_input # None) =>
        /\ pc = "done"
        /\ LET d == args[1]
               v == result[1].feature_vector
               code(f, x) == FromInt(encode_feature(encoders, feature_mappings, f, x).val[1])
           IN  /\ DOMAIN v = 1..11
               /\ v[1] = calculate_ratio_monthly_charges_tenure(d.monthly_charges, d.tenure).val[1]
               /\ v[2] = code("Contract", d.contract)
               /\ v[3] = FromInt(d.tenure)
               /\ v[4] = d.monthly_charges
               /\ v[5] = FromInt(ExpectedSegment(d.tenure))
               /\ v[6] = d.total_charges
               /\ v[7] = FromInt(IF d.tenure <= 6 THEN 1 ELSE 0)
               /\ v[8] = code("PaymentMethod", d.payment_method)
               /\ v[9] = code("InternetService", d.internet_service)
               /\ v[10] = code("PaperlessBilling", d.paperless_billing)
               /\ v[11] = calculate_ratio_total_monthly_tenure(
                              d.total_charges, d.monthly_charges, d.tenure).val[1]
               /\ result[1].metadata.feature_vector_shape = <<11>>

C1_Witness ==
    /\ op = "preprocess" /\ pc = "done"
    /\ args[1].tenure = 13 /\ args[1].contract = "Two year"
    /\ Len(result[1].feature_vector) = 11
    /\ result[1].feature_vector[3] = FromInt(13)
    /\ result[1].feature_vector[2] = FromInt(2)

\* The record satisfies every constraint of the data model
\* (monthly_charges > 0, tenure >= 0, total_charges >= 0, enums).
SatisfiesDataModel(d) ==
    /\ d.contract \in AllowedContract
    /\ d.payment_method \in AllowedPaymentMethod
    /\ d.internet_service \in AllowedInternetService
    /\ d.paperless_billing \in AllowedPaperlessBilling
    /\ d.tenure >= 0
    /\ d.monthly_charges.num > 0
    /\ d.total_charges.num >= 0

\* C2: validation accepts a record if and only if the four categorical
\* values are allowed, tenure >= 0, monthly_charges > 0 and total_charges >= 0.
C2_AcceptsIffValid ==
    PreprocessValidated => (validated_input # None <=> SatisfiesDataModel(args[1]))

\* The fields of the record whose data-model constraint is violated.
ViolatedFields(d) ==
    {f \in Range(ClientInputFields) :
        CASE f = "contract"          -> d.contract \notin AllowedContract
          [] f = "tenure"            -> d.tenure < 0
          [] f = "monthly_charges"   -> d.monthly_charges.num <= 0
          [] f = "total_charges"     -> d.total_charges.num < 0
          [] f = "payment_method"    -> d.payment_method \notin AllowedPaymentMethod
          [] f = "internet_service"  -> d.internet_service \notin AllowedInternetService
          [] f = "paperless_billing" -> d.paperless_billing \notin AllowedPaperlessBilling}

\* C3: a record violating the constraints of more than one field fails
\* validation with one error whose reported fields are exactly the violated
\* fields.
C3_AllViolationsReported ==
    (PreprocessValidated /\ Cardinality(ViolatedFields(args[1])) > 1) =>
        /\ pc = "error"
        /\ validated_input = None
        /\ error # None
        /\ error[1].about = ViolatedFields(args[1])

\* What the aggregation does with the bounds the code enforces: the reported
\* fields are exactly the fields that fail FieldValid, however many fail.
ValidationReportsEveryFailure ==
    (PreprocessValidated /\ validated_input = None) =>
        /\ pc = "error"
        /\ error[1].type = "ValueError"
        /\ error[1].about = {f \in Range(ClientInputFields) : ~FieldValid(args[1], f)}
        /\ ViolatedFields(args[1]) \subseteq error[1].about

\* C4: for tenure >= 0 the segment is 0 up to 6, 1 up to 12, 2 up to 24 and
\* 3 above, and it never decreases when tenure grows.
C4_TenureSegment ==
    (op = "calculate_tenure_segment_encoded" /\ args[1].tenure >= 0) =>
        /\ pc = "done"
        /\ LET t == args[1].tenure
           IN  /\ t <= 6 => result = Some(0)
               /\ (7 <= t /\ t <= 12) => result = Some(1)
               /\ (13 <= t /\ t <= 24) => result = Some(2)
               /\ t >= 25 => result = Some(3)
               /\ \A u \in Tenures : (0 <= u /\ u <= t) =>
                      calculate_tenure_segment_encoded(u).val[1] <= result[1]

C4_Witness ==
    /\ op = "calculate_tenure_segment_encoded"
    /\ args[1].tenure = 25
    /\ result = Some(3)

\* C5: for tenure >= 0, is_new_customer is 1 exactly when tenure <= 6 and 0
\* otherwise.
C5_IsNewCustomer ==
    (op = "calculate_is_new_customer" /\ args[1].tenure >= 0) =>
        /\ pc = "done"
        /\ result \in {Some(0), Some(1)}
        /\ result = Some(1) <=> args[1].tenure <= 6

C5_Witness ==
    /\ op = "calculate_is_new_customer"
    /\ args[1].tenure = 6
    /\ result = Some(1)


RatioTotalName == "Ratio_TotalCharges_MonthlyCharges*tenure"

\* r is the ratio the claim gives for (total_charges, monthly_charges, tenure):
\* exactly 1 at tenure 0, total_charges / (monthly_charges * tenure) above.
IsExpectedRatioTotal(r, tc, m, t) ==
    IF t = 0
    THEN r = [den |-> 1, num |-> 1]
    ELSE IsQuotient(r, tc.num * m.den, tc.den * m.num * t)

\* C6: for total_charges >= 0 and monthly_charges > 0 the total ratio is
\* exactly 1.0 at tenure 0 whatever total_charges is, and
\* total_charges / (monthly_charges * tenure) for tenure >= 1; preprocess
\* reports that same value in the metadata and as last vector element.
C6_RatioTotal ==
    /\ (/\ op = "calculate_ratio_total_monthly_tenure"
        /\ args[1].total_charges.num >= 0
        /\ args[1].monthly_charges.num > 0
        /\ args[1].tenure >= 0) =>
            /\ pc = "done"
            /\ IsExpectedRatioTotal(result[1], args[1].total_charges,
                                    args[1].monthly_charges, args[1].tenure)
    /\ (op = "preprocess" /\ pc = "done") =>
            /\ IsExpectedRatioTotal(result[1].metadata.engineered_features[RatioTotalName],
                                    args[1].total_charges, args[1].monthly_charges,
                                    args[1].tenure)
            /\ result[1].feature_vector[Len(result[1].feature_vector)] =
                   result[1].metadata.engineered_features[RatioTotalName]

C6_Witness ==
    /\ op = "calculate_ratio_total_monthly_tenure"
    /\ args[1].tenure = 0
    /\ args[1].total_charges = Cents(0)
    /\ args[1].monthly_charges = Cents(5000)
    /\ result = Some(FromInt(1))

\* C7: for monthly_charges > 0 and tenure >= 0 the monthly ratio is exactly
\* monthly_charges / (tenure + 1); the divisor is not zero and the result is
\* strictly positive and at most monthly_charges.
C7_RatioMonthly ==
    (/\ op = "calculate_ratio_monthly_charges_tenure"
     /\ args[1].monthly_charges.num > 0
     /\ args[1].tenure >= 0) =>
        /\ pc = "done"
        /\ args[1].tenure + 1 # 0
        /\ IsQuotient(result[1], args[1].monthly_charges.num,
                      args[1].monthly_charges.den * (args[1].tenure + 1))
        /\ result[1].num > 0
        /\ RatLE(result[1], args[1].monthly_charges)

C7_Witness ==
    /\ op = "calculate_ratio_monthly_charges_tenure"
    /\ args[1].monthly_charges = Cents(5000)
    /\ args[1].tenure = 12
    /\ result = Some([den |-> 13, num |-> 50])

\* The end-to-end example record.
ExampleInput ==
    [contract |-> "Month-to-month", internet_service |-> "Fiber optic",
     monthly_charges |-> Cents(7550), paperless_billing |-> "Yes",
     payment_method |-> "Electronic check", tenure |-> 12,
     total_charges |-> Cents(90600)]

\* C8 as stated: preprocess on the example record yields
\* tenure_segment_encoded = 2 and is_new_customer = 0.
C8_ExampleAsStated ==
    (PreprocessEnded /\ args = Some(ExampleInput)) =>
        /\ pc = "done"
        /\ result[1].metadata.engineered_features["tenure_segment_encoded"] = 2
        /\ result[1].metadata.engineered_features["is_new_customer"] = 0

\* C8 (amended): preprocess on the example record yields
\* tenure_segment_encoded = 1 and is_new_customer = 0.
C8_Example ==
    (PreprocessEnded /\ args = Some(ExampleInput)) =>
        /\ pc = "done"
        /\ result[1].metadata.engineered_features["tenure_segment_encoded"] = 1
        /\ result[1].metadata.engineered_features["is_new_customer"] = 0
        /\ result[1].feature_vector[5] = FromInt(1)
        /\ result[1].feature_vector[7] = FromInt(0)

C8_Witness ==
    /\ op = "preprocess" /\ pc = "done"
    /\ args = Some(ExampleInput)
    /\ result[1].metadata.engineered_features["tenure_segment_encoded"] = 1

\* The allowed-value list of a categorical field, in its listed order.
AllowedList(f) ==
    CASE f = "Contract"         -> CONTRACT_VALUES
      [] f = "PaymentMethod"    -> PAYMENT_METHOD_VALUES
      [] f = "InternetService"  -> INTERNET_SERVICE_VALUES
      [] f = "PaperlessBilling" -> PAPERLESS_BILLING_VALUES

CategoricalFields == {"Contract", "PaymentMethod", "InternetService", "PaperlessBilling"}

\* C9: on every allowed value of each categorical field encode_feature
\* returns the value's 0-based position in the field's allowed-value list, a
\* code no other allowed value of the field gets (Contract: Month-to-month 0,
\* One year 1, Two year 2; PaymentMethod: Bank transfer 0, Electronic check 2).
C9_EncodeTotalInjective ==
    (/\ op = "encode_feature"
     /\ args[1].feature_name \in CategoricalFields
     /\ args[1].value \in Range(AllowedList(args[1].feature_name))) =>
        LET f == args[1].feature_name
            v == args[1].value
            L == AllowedList(f)
        IN  /\ pc = "done"
            /\ \E n \in 1..Len(L) : L[n] = v /\ result = Some(n - 1)
            /\ \A w \in Range(L) : w # v =>
                   /\ encode_feature(encoders, feature_mappings, f, w).ok
                   /\ encode_feature(encoders, feature_mappings, f, w).val # result
            /\ (f = "Contract" /\ v = "Month-to-month") => result = Some(0)
            /\ (f = "Contract" /\ v = "One year") => result = Some(1)
            /\ (f = "Contract" /\ v = "Two year") => result = Some(2)
            /\ (f = "PaymentMethod" /\ v = "Bank transfer (automatic)") => result = Some(0)
            /\ (f = "PaymentMethod" /\ v = "Electronic check") => result = Some(2)

C9_Witness ==
    /\ op = "encode_feature"
    /\ args[1].feature_name = "PaymentMethod"
    /\ args[1].value = "Electronic check"
    /\ result = Some(2)

\* C10: encode_feature raises KeyError for a field that is not one of the
\* four categorical fields, whatever the value, and ValueError for a
\* recognized field with a value outside its allowed set; in both cases no
\* code is returned.
C10_EncodeErrors ==
    (op = "encode_feature") =>
        LET f == args[1].feature_name
            v == args[1].value
        IN  /\ f \notin CategoricalFields =>
                /\ pc = "error" /\ result = None
                /\ error # None /\ error[1].type = "KeyError"
            /\ (f \in CategoricalFields /\ v \notin Range(AllowedList(f))) =>
                /\ pc = "error" /\ result = None
                /\ error # None /\ error[1].type = "ValueError"

C10_Witness ==
    /\ op = "encode_feature"
    /\ args[1].feature_name = "Gender"
    /\ args[1].value = "Cash"
    /\ pc = "error"
    /\ error[1].type = "KeyError"


\* ------------------------------------------------------------ C15 .. C20

\* Position of a preprocess call: 0 before it, 1..4 after each stage.
StageRank(p) ==
    CASE p = "idle" -> 0
      [] p = "validated" -> 1
      [] p = "encoded" -> 2
      [] p = "engineered" -> 3
      [] p = "done" -> 4

\* What a preprocess call holds at each position: exactly the outputs of the
\* stages that have run, a result only after the last one, and after a
\* failure no result at all.
StageFrame ==
    op = "preprocess" =>
        /\ pc \in {"validated", "encoded", "engineered", "done", "error"}
        /\ pc # "error" =>
              /\ error = None
              /\ (validated_input # None) <=> StageRank(pc) >= 1
              /\ (encoded_features # None) <=> StageRank(pc) >= 2
              /\ (engineered_features # None) <=> StageRank(pc) >= 3
              /\ (result # None) <=> StageRank(pc) >= 4
        /\ pc = "error" =>
              /\ error # None
              /\ result = None
              /\ encoded_features # None => validated_input # None
              /\ engineered_features # None => encoded_features # None

\* A step of a preprocess call: one stage forward, or to the error state
\* exactly when that stage fails; after an error or the return only the
\* caller moves on.
StageStep ==
    /\ (op' = "preprocess" /\ op = "none") =>
          /\ pc = "idle"
          /\ pc' = (IF validate_input(args'[1]).ok THEN "validated" ELSE "error")
    /\ (op = "preprocess" /\ pc \in {"validated", "encoded", "engineered"}) =>
          /\ op' = "preprocess" /\ args' = args
          /\ \/ StageRank(pc') = StageRank(pc) + 1
             \/ pc' = "error"
          /\ pc = "validated" =>
                (pc' = "error" <=>
                    ~encode_categorical_features(encoders, feature_mappings,
                                                 validated_input[1]).ok)
          /\ pc = "encoded" =>
                (pc' = "error" <=> ~compute_engineered_features(validated_input[1]).ok)
          /\ pc = "engineered" =>
                (pc' = "error" <=>
                    ~build_feature_vector(feature_order, validated_input[1],
                                          encoded_features[1], engineered_features[1]).ok)
    /\ (op = "preprocess" /\ pc \in {"done", "error"}) => op' = "none"
    /\ StageFrame'

\* C15: within one preprocess call the stages run in the order validate,
\* encode, engineer, assemble, each at most once and never backwards; a
\* failing stage ends the call with an error, no later stage runs and no
\* vector or metadata is returned.
C15_StageOrder == [][StageStep]_vars

C15_Witness ==
    /\ op = "preprocess" /\ pc = "error"
    /\ validated_input = None /\ encoded_features = None
    /\ engineered_features = None /\ result = None
    /\ args[1].contract = "Monthly"

\* C16: validate_engineered_features returns true exactly when the four keys
\* are present and Ratio_MonthlyCharges_tenure > 0, tenure_segment_encoded is
\* in {0,1,2,3}, is_new_customer is in {0,1} and the total ratio is >= 0; it
\* returns false, without raising, when a key is missing.
C16_ValidateEngineered ==
    (op = "validate_engineered_features") =>
        LET f == args[1].features
        IN  /\ pc = "done" /\ error = None
            /\ result \in {Some(TRUE), Some(FALSE)}
            /\ result = Some(TRUE) <=>
                  /\ DOMAIN f = {"Ratio_MonthlyCharges_tenure", "tenure_segment_encoded",
                                 "is_new_customer", "Ratio_TotalCharges_MonthlyCharges*tenure"}
                  /\ f["Ratio_MonthlyCharges_tenure"].num > 0
                  /\ f["tenure_segment_encoded"] >= 0 /\ f["tenure_segment_encoded"] <= 3
                  /\ f["is_new_customer"] >= 0 /\ f["is_new_customer"] <= 1
                  /\ f["Ratio_TotalCharges_MonthlyCharges*tenure"].num >= 0

C16_Witness ==
    /\ op = "validate_engineered_features"
    /\ DOMAIN args[1].features =
          {"Ratio_MonthlyCharges_tenure", "tenure_segment_encoded", "is_new_customer"}
    /\ result = Some(FALSE)
    /\ pc = "done"

\* The engineer stage of a preprocess call has run.
EngineerStageRan == op = "preprocess" /\ encoded_features # None /\ pc # "encoded"

\* C17: for every input accepted by validation the engineered features pass
\* the validation gate: the engineer stage of preprocess never fails on them.
C17_GateNeverFails ==
    EngineerStageRan =>
        /\ engineered_features # None
        /\ LET f == engineered_features[1]
           IN  /\ f["Ratio_MonthlyCharges_tenure"].num > 0
               /\ f["tenure_segment_encoded"] \in 0..3
               /\ f["is_new_customer"] \in 0..1
               /\ f["Ratio_TotalCharges_MonthlyCharges*tenure"].num >= 0
        /\ error # None => error[1].about # {}

C17_Witness ==
    /\ op = "preprocess" /\ pc = "engineered"
    /\ args[1].tenure >= 1 /\ args[1].total_charges = Cents(0)
    /\ engineered_features[1]["Ratio_TotalCharges_MonthlyCharges*tenure"] = FromInt(0)

\* C18: once validate, encode and engineer have succeeded the combined
\* feature map holds each of the 11 names of the feature order, so the
\* assemble stage never fails with the missing-feature error.
C18_NoMissingFeature ==
    (op = "preprocess" /\ engineered_features # None) =>
        /\ \A n \in 1..Len(feature_order) :
              feature_order[n] \in
                  {"tenure", "MonthlyCharges", "TotalCharges"}
                     \cup DOMAIN encoded_features[1] \cup DOMAIN engineered_features[1]
        /\ Len(feature_order) = 11
        /\ pc \in {"engineered", "done"}

C18_Witness ==
    /\ op = "preprocess" /\ pc = "done"
    /\ DOMAIN encoded_features[1] =
          {"Contract", "PaymentMethod", "InternetService", "PaperlessBilling"}
    /\ Cardinality(DOMAIN engineered_features[1]) = 4

\* C19: every input that reaches the engineer stage of preprocess has
\* tenure >= 0, monthly_charges > 0 and total_charges >= 0, so the numeric
\* precondition errors of feature engineering are never raised there.
C19_PreconditionsUnreachable ==
    (op = "preprocess" /\ encoded_features # None) =>
        /\ validated_input[1].tenure >= 0
        /\ validated_input[1].monthly_charges.num > 0
        /\ validated_input[1].total_charges.num >= 0
        /\ error # None =>
              error[1].about \cap {"tenure", "monthly_charges", "total_charges",
                                   "Tenure", "MonthlyCharges", "TotalCharges"} = {}
        /\ pc # "encoded" => engineered_features # None

C19_Witness ==
    /\ op = "preprocess" /\ pc = "encoded"
    /\ validated_input[1].tenure = 0
    /\ validated_input[1].total_charges = Cents(0)
    /\ validated_input[1].monthly_charges = Cents(2)

\* The argument of compute_all_engineered_features the error is about.
OffendingValue(a, field) ==
    CASE field = "tenure" -> a.tenure
      [] field = "monthly_charges" -> a.monthly_charges
      [] field = "total_charges" -> a.total_charges

\* C20: called directly, compute_all_engineered_features fails exactly when
\* tenure < 0 or monthly_charges <= 0 or total_charges < 0, with an error
\* naming an offending field and its value and no features returned;
\* otherwise it returns exactly the four engineered features.
C20_ComputeAllPreconditions ==
    (op = "compute_all_engineered_features") =>
        LET a == args[1]
            offending == {f \in {"tenure", "monthly_charges", "total_charges"} :
                            CASE f = "tenure" -> a.tenure < 0
                              [] f = "monthly_charges" -> a.monthly_charges.num <= 0
                              [] f = "total_charges" -> a.total_charges.num < 0}
        IN  /\ pc = "error" <=> offending # {}
            /\ pc = "error" =>
                  /\ result = None
                  /\ error[1].type = "ValueError"
                  /\ \E f \in offending :
                        /\ error[1].about = {f}
                        /\ error[1].value = Some(OffendingValue(a, f))
            /\ pc # "error" =>
                  /\ pc = "done" /\ error = None
                  /\ DOMAIN result[1] =
                        {"Ratio_MonthlyCharges_tenure", "tenure_segment_encoded",
                         "is_new_customer", "Ratio_TotalCharges_MonthlyCharges*tenure"}

C20_Witness ==
    /\ op = "compute_all_engineered_features"
    /\ args[1].tenure = 3 /\ args[1].monthly_charges = Cents(0)
    /\ args[1].total_charges = Cents(-100)
    /\ pc = "error"
    /\ error[1].about = {"monthly_charges"}


\* ------------------------------------------------------------ batch claims
\* 0-based indexes of the records of a batch on which preprocess fails.
FailingIndexes(clients_data) ==
    {n \in 0..(Len(clients_data) - 1) :
        ~preprocess(encoders, feature_mappings, feature_order, clients_data[n + 1]).ok}

FirstFailing(clients_data) ==
    CHOOSE n \in FailingIndexes(clients_data) :
        \A m \in FailingIndexes(clients_data) : n <= m

\* C11: a preprocess call finishing on the input of an earlier, kept
\* preprocess call on the same object gives exactly what the kept call gave
\* (the same vector and metadata, or the same error), whatever preprocess,
\* preprocess_batch and get_feature_info calls were made in between.
C11_PreprocessRepeatable ==
    (/\ op = "preprocess" /\ pc \in {"done", "error"}
     /\ kept # None /\ kept[1].client_data = args[1]) =>
        /\ result = kept[1].result
        /\ error = kept[1].error

C11_Witness ==
    /\ op = "preprocess" /\ pc = "done"
    /\ kept # None /\ kept[1].client_data = args[1]
    /\ kept[1].later = {"preprocess", "preprocess_batch", "get_feature_info"}
    /\ result # None /\ result = kept[1].result

\* C12: preprocess_batch on N >= 1 records that preprocess accepts returns
\* N vectors and N metadata dicts, and the i-th of each is what a preprocess
\* call on the i-th record alone gave the caller; such a batch never raises.
C12_BatchMatchesSingle ==
    (/\ op = "preprocess_batch" /\ Len(args[1]) >= 1
     /\ FailingIndexes(args[1]) = {}) =>
        /\ pc # "error"
        /\ pc = "done" =>
              /\ Len(result[1].feature_matrix) = Len(args[1])
              /\ Len(result[1].metadatas) = Len(args[1])
              /\ \A n \in 1..Len(args[1]) :
                    (kept # None /\ kept[1].client_data = args[1][n]) =>
                        /\ kept[1].result # None
                        /\ result[1].feature_matrix[n] = kept[1].result[1].feature_vector
                        /\ result[1].metadatas[n] = kept[1].result[1].metadata

C12_Witness ==
    /\ op = "preprocess_batch" /\ pc = "done"
    /\ Len(args[1]) = MaxBatch
    /\ kept # None /\ kept[1].client_data = args[1][2]
    /\ args[1][1] # args[1][2]
    /\ result[1].feature_matrix[2] = kept[1].result[1].feature_vector
    /\ result[1].feature_matrix[1] # result[1].feature_matrix[2]

\* C13: when preprocess fails on some record of the batch, preprocess_batch
\* never returns anything, never goes past the first failing record, and the
\* error it raises is a ValueError naming the index of that record.
C13_BatchStopsAtFirstFailure ==
    (op = "preprocess_batch" /\ FailingIndexes(args[1]) # {}) =>
        LET first == FirstFailing(args[1])
        IN  /\ pc \in {"loop", "error"}
            /\ result = None
            /\ i <= first
            /\ Len(feature_vectors) = i /\ Len(metadatas) = i
            /\ pc = "error" =>
                  /\ i = first
                  /\ error # None
                  /\ error[1].type = "ValueError"
                  /\ error[1].client = first

C13_Witness ==
    /\ op = "preprocess_batch" /\ pc = "error"
    /\ Len(args[1]) = MaxBatch
    /\ FirstFailing(args[1]) = 1
    /\ FailingIndexes(args[1]) = {1}
    /\ error[1].client = 1 /\ i = 1 /\ result = None


RiskLevels ==
    {"Critical Risk", "High Risk", "Medium-High Risk", "Medium Risk", "Low-Medium Risk",
     "Low Risk"}

\* C14: predict_batch on N records with N client ids never raises: it
\* appends one result per record in input order, result n carrying the n-th
\* client id; a record whose preprocessing fails gets a result with
\* risk_level "Error" and the error as recommendation, a record that is
\* preprocessed gets its own prediction (or the error result, when the model
\* raised), and what is returned are the N results.
C14_PredictBatchTotal ==
    (/\ op = "predict_batch" /\ args[1].client_ids # None
     /\ Len(args[1].client_ids[1]) = Len(args[1].clients_data)) =>
        /\ pc \in {"loop", "done"}
        /\ Len(results) = i /\ i <= Len(args[1].clients_data)
        /\ \A n \in 1..Len(results) :
              /\ results[n].client_id = Some(args[1].client_ids[1][n])
              /\ results[n].risk_level \in RiskLevels \cup {"Error"}
              /\ (n - 1) \in FailingIndexes(args[1].clients_data) =>
                     results[n].risk_level = "Error"
              /\ results[n].risk_level = "Error" =>
                     /\ results[n].business_recommendation[1] = "Erreur"
                     /\ results[n].business_recommendation[2].type = "ValueError"
                     /\ results[n].churn_prediction = 0
              /\ results[n].risk_level # "Error" =>
                     results[n].model_metadata[1].preprocessing_metadata.input_data
                         = args[1].clients_data[n]
        /\ pc = "done" =>
              /\ result = Some(results)
              /\ Len(results) = Len(args[1].clients_data)

C14_Witness ==
    /\ op = "predict_batch" /\ pc = "done"
    /\ args[1].client_ids # None
    /\ Len(args[1].clients_data) = MaxBatch
    /\ Len(result[1]) = MaxBatch
    /\ FailingIndexes(args[1].clients_data) = {1}
    /\ result[1][1].risk_level \in RiskLevels
    /\ result[1][2].risk_level = "Error"
    /\ result[1][3].risk_level \in RiskLevels
    /\ \A n \in 1..MaxBatch : result[1][n].client_id = Some(GivenId(n))


\* ------------------------------------------------------------ frozen tables
\* C21: no step of encode_feature, encode_all_features,
\* validate_input_values, get_feature_info (of the manager or of the
\* preprocessor), preprocess or preprocess_batch, successful or failing,
\* changes the loaded encoders, the allowed-value mappings or the feature
\* order.
C21_TablesFrozen ==
    [][encoders' = encoders /\ feature_mappings' = feature_mappings
         /\ feature_order' = feature_order]_vars

C21_Witness ==
    /\ op = "encode_all_features" /\ pc = "error"
    /\ "Contract" \in DOMAIN args[1] /\ args[1]["Contract"] = "Maybe"
    /\ encoders = LoadedEncoders
    /\ feature_order = MODEL_FEATURES
    /\ feature_mappings["Contract"] = CONTRACT_VALUES


\* ------------------------------------------------------------- concurrency
\* What a thread's call has given equals what preprocess gives on its
\* record when it runs alone.
AsAlone(c) ==
    LET alone == preprocess(encoders, feature_mappings, feature_order, c.client_data[1])
    IN  /\ c.pc = "done" => alone.ok /\ c.result = alone.val /\ c.error = None
        /\ c.pc = "error" => ~alone.ok /\ c.error = Some(alone.exc) /\ c.result = None

\* C22: with several preprocess calls in flight on one preprocessor, under
\* every interleaving of their stages, each step changes only the locals of
\* the thread that takes it (never the tables, never another call's locals),
\* and every finished call has given exactly what preprocess gives on its
\* record alone.
C22_ConcurrentCallsIndependent ==
    [][/\ tables' = tables
       /\ \E t \in 1..MaxThreads : \A u \in 1..MaxThreads \ {t} : calls'[u] = calls[u]
       /\ \A t \in 1..MaxThreads :
             calls'[t].pc \in {"done", "error"} => AsAlone(calls'[t])]_vars

C22_Witness ==
    /\ calls[1].pc = "done" /\ calls[2].pc = "engineered"
    /\ calls[1].client_data # calls[2].client_data
    /\ calls[1].result # None
    /\ calls[1].result[1].metadata.input_data = calls[1].client_data[1]


\* ------------------------------------------------------- binning of tenure
\* pd.cut(x, bins, labels) with right-inclusive bins: the label of the bin
\* (bins[n], bins[n + 1]] that holds x, None (NaN) when no bin holds it.
pd_cut(x, bins, labels) ==
    LET holding == {n \in 1..(Len(bins) - 1) : bins[n] < x /\ x <= bins[n + 1]}
    IN  IF holding = {} THEN None ELSE Some(labels[CHOOSE n \in holding : TRUE])

\* C23: for every tenure >= 0, calculate_tenure_segment_encoded returns the
\* code TENURE_SEGMENT_MAPPING gives to the label that pd.cut with
\* TENURE_BINS and TENURE_LABELS gives to the tenure.
C23_ReproducesCut ==
    (op = "calculate_tenure_segment_encoded" /\ args[1].tenure >= 0) =>
        LET label == pd_cut(args[1].tenure, TENURE_BINS, TENURE_LABELS)
        IN  /\ pc = "done"
            /\ label # None
            /\ result = Some(TENURE_SEGMENT_MAPPING[label[1]])

\* Up to the last bin edge the function and the binning agree; above it the
\* binning has no bin and the function answers 3.
TenureSegmentWithinBins ==
    (op = "calculate_tenure_segment_encoded" /\ args[1].tenure >= 0) =>
        LET label == pd_cut(args[1].tenure, TENURE_BINS, TENURE_LABELS)
        IN  /\ pc = "done"
            /\ args[1].tenure <= TENURE_BINS[Len(TENURE_BINS)] =>
                  label # None /\ result = Some(TENURE_SEGMENT_MAPPING[label[1]])
            /\ args[1].tenure > TENURE_BINS[Len(TENURE_BINS)] =>
                  label = None /\ result = Some(3)


\* ------------------------------------------------ new customer and segment
\* C24: whenever compute_all_engineered_features has returned features,
\* called directly or by preprocess on a validated input, is_new_customer
\* is 1 exactly when tenure_segment_encoded is 0.
C24_NewCustomerIffFirstSegment ==
    /\ (op = "compute_all_engineered_features" /\ pc = "done") =>
          (result[1]["is_new_customer"] = 1 <=> result[1]["tenure_segment_encoded"] = 0)
    /\ (op = "preprocess" /\ engineered_features # None) =>
          (engineered_features[1]["is_new_customer"] = 1
              <=> engineered_features[1]["tenure_segment_encoded"] = 0)

C24_Witness ==
    /\ op = "preprocess" /\ pc = "done"
    /\ args[1].tenure = 6
    /\ engineered_features[1]["is_new_customer"] = 1
    /\ engineered_features[1]["tenure_segment_encoded"] = 0


\* ----------------------------------------------------------- scoring claims
HighRiskLevels == {"Critical Risk", "High Risk", "Medium-High Risk"}
LowRiskLevels == {"Medium Risk", "Low-Medium Risk", "Low Risk"}

\* C25: in every result predict_single returns, churn_prediction is 1
\* exactly when churn_probability >= optimal_threshold, 1 exactly when the
\* risk level is Critical, High or Medium-High Risk and 0 exactly when it is
\* Medium, Low-Medium or Low Risk, for every threshold of [0, 1].
C25_PredictionMatchesRisk ==
    (op = "predict_single" /\ pc = "done") =>
        LET r == result[1]
        IN  /\ r.churn_prediction \in {0, 1}
            /\ r.churn_prediction = 1 <=> RatGE(r.churn_probability, optimal_threshold[1])
            /\ r.churn_prediction = 1 <=> r.risk_level \in HighRiskLevels
            /\ r.churn_prediction = 0 <=> r.risk_level \in LowRiskLevels

C25_Witness ==
    /\ op = "predict_single" /\ pc = "done"
    /\ result[1].churn_probability = optimal_threshold[1]
    /\ optimal_threshold[1] = Rat(3, 10)
    /\ result[1].churn_prediction = 1
    /\ result[1].risk_level = "Medium-High Risk"

RiskRank(level) ==
    CASE level = "Low Risk" -> 0
      [] level = "Low-Medium Risk" -> 1
      [] level = "Medium Risk" -> 2
      [] level = "Medium-High Risk" -> 3
      [] level = "High Risk" -> 4
      [] level = "Critical Risk" -> 5

\* C26: for the threshold the predictor holds, the level
\* _interpret_probability returns for a probability is at least the level
\* of every smaller probability and at most that of every larger one.
C26_RiskMonotone ==
    (op = "_interpret_probability" /\ pc = "done") =>
        /\ result[1][1] \in HighRiskLevels \cup LowRiskLevels
        /\ \A q \in ProbabilityGrid :
              /\ RatLE(q, args[1].probability) =>
                     RiskRank(interpret_probability(optimal_threshold[1], q)[1])
                        <= RiskRank(result[1][1])
              /\ RatLE(args[1].probability, q) =>
                     RiskRank(result[1][1])
                        <= RiskRank(interpret_probability(optimal_threshold[1], q)[1])

C26_Witness ==
    /\ op = "_interpret_probability" /\ pc = "done"
    /\ optimal_threshold[1] = Rat(1, 10)
    /\ args[1].probability = Rat(3, 20)
    /\ result[1][1] = "Medium-High Risk"

\* C27: for every probability and threshold of [0, 1] _calculate_confidence
\* returns (no division by zero) a score between 0.5 and 1.0 inclusive,
\* and exactly 0.5 when the probability equals the threshold.
C27_ConfidenceRange ==
    (op = "_calculate_confidence") =>
        /\ pc = "done"
        /\ RatLE(Rat(1, 2), result[1]) /\ RatLE(result[1], FromInt(1))
        /\ args[1].probability = optimal_threshold[1] => result[1] = Rat(1, 2)

C27_Witness ==
    /\ op = "_calculate_confidence" /\ pc = "done"
    /\ optimal_threshold[1] = Rat(13, 20)
    /\ args[1].probability = Rat(13, 20)
    /\ result[1] = Rat(1, 2)

\* C28: health_check never raises; its status is healthy exactly when the
\* model is loaded and the test prediction succeeded, degraded exactly when
\* the model is loaded and the test prediction failed, unhealthy exactly
\* when the model is not loaded; with the model loaded the report holds
\* test_prediction_success.
C28_HealthStatus ==
    (op = "health_check") =>
        /\ pc = "done"
        /\ LET health == result[1]
               test_ok == args[1].scored.ok
           IN  /\ health.status \in {"healthy", "degraded", "unhealthy"}
               /\ health.status = "healthy" <=> (is_loaded /\ test_ok)
               /\ health.status = "degraded" <=> (is_loaded /\ ~test_ok)
               /\ health.status = "unhealthy" <=> ~is_loaded
               /\ health.model_loaded = is_loaded
               /\ is_loaded =>
                     /\ "test_prediction_success" \in DOMAIN health
                     /\ health["test_prediction_success"] = test_ok

C28_Witness ==
    /\ op = "health_check" /\ pc = "done"
    /\ ~args[1].scored.ok
    /\ result[1].status = "degraded"
    /\ result[1]["test_prediction_success"] = FALSE


\* ------------------------------------------------------------ history claims
\* get_prediction_history: the list, empty when the key is not set.
History(app) == IF prediction_history[app] = None THEN <<>> ELSE prediction_history[app][1]

\* C29: after any saves and clears the history holds at most 50 entries,
\* and they are the most recently saved ones since the last clear, in the
\* order they were saved.
C29_HistoryKeepsLatest ==
    \A app \in Apps :
        LET h == History(app)
        IN  /\ Len(h) <= 50
            /\ Len(h) = IF saved[app] <= 50 THEN saved[app] ELSE 50
            /\ \A n \in 1..Len(h) : h[n].data = saved[app] - Len(h) + n

C29_Witness ==
    /\ saved["streamlit_app"] = 52
    /\ Len(History("streamlit_app")) = 50
    /\ History("streamlit_app")[1].data = 3
    /\ History("streamlit_app")[50].data = 52

\* C30: after any saves and clears, no two entries of the history have the
\* same id.
C30_HistoryIdsUnique ==
    \A app \in Apps :
        \A m, n \in 1..Len(History(app)) :
            m # n => History(app)[m].id # History(app)[n].id

\* Up to 51 saves since the last clear the ids are distinct; past the limit
\* every new entry gets the id 51.
HistoryIdsUpToLimit ==
    \A app \in Apps :
        LET h == History(app)
        IN  \A n \in 1..Len(h) :
                h[n].id = IF h[n].data <= HISTORY_LIMIT THEN h[n].data
                          ELSE HISTORY_LIMIT + 1

====
